---- MODULE Spec2Model ----
(***************************************************************************)
(* A model of the name resolver of the wake compiler front end             *)
(* (src/unnamed/part_000): fracture_binding with its Bellman-Ford level    *)
(* assignment and Tarjan SCC pass, the pattern compiler, publish chaining  *)
(* and reference rebinding.                                                *)
(***************************************************************************)
EXTENDS Integers, Sequences, FiniteSets, TLC

\* ------------------------------------------------------------------------
\* Bounds of the model
\* ------------------------------------------------------------------------

\* largest number of definitions of one scope handed to fracture_binding
MaxDefs == 3
\* largest number of reference edges among the definitions of that scope
MaxEdges == 4

VARIABLES
  fb_defs,    \* std::vector<ResolveDef> &defs: name, expr kind, edges
  fb_tarjan,  \* the index/lowlink/onstack fields of every ResolveDef
  fb_d,       \* std::vector<int> d: the level of every definition
  fb_p,       \* std::vector<int> p: the predecessor of every definition
  fb_q,       \* std::queue<RelaxedVertex> q
  fb_i,       \* the loop variable of the emission loop
  fb_out,     \* std::unique_ptr<Expr> out
  fb_cycle,   \* what the cycle report wrote to std::cerr
  fb_pc,      \* position inside fracture_binding
  pm_match,   \* rebind_match: the Match being compiled and the scope chain
  pm_patterns,\* std::vector<PatternRef> patterns
  pm_exprs,   \* the "_ f<i>" entries of the DefMap: the lambdas around each arm
  pm_ok,      \* bool ok
  pm_out,     \* what rebind_match returns
  pm_diag,    \* the diagnostics written to std::cerr
  pm_calls,   \* the recursive calls expand_patterns made, in order
  pm_pc,      \* position inside rebind_match
  pub_chain,  \* chain_publish: the ResolveBinding being filled and its parents
  pub_files,  \* the definition maps whose publish maps are chained, in order
  pub_ctr,    \* int chain: the counter behind the intermediate names
  pub_file,   \* the definition map the loop is at
  pub_i,      \* the entry of the publish map the outer loop is at
  pub_j,      \* the contribution the inner (reverse) loop is at
  pub_sub,    \* the VarRef a subscribe in the body of the scope resolves to
  pub_pc,     \* position inside the scope
  ref_top,    \* bind_refs: the Top handed in
  ref_out,    \* std::unique_ptr<Expr> out
  ref_st,     \* what fracture did: references resolved, diagnostics
  ref_unbound,\* the names explore reported as unbound
  ref_pc,     \* position inside bind_refs
  lex_file,   \* the tokens of the file, as lex_top returns them
  lex_input,  \* what lex_top has yet to return
  lex_tabs,   \* std::vector<int> tabs
  lex_indent, \* int indent
  lex_eol,    \* bool eol
  lex_next,   \* Symbol next: the token consume left
  lex_out,    \* the tokens consume produced so far, with the stack before and after
  lex_pc,     \* whether the Lexer was constructed
  ty_top,     \* type inference: the Top handed to bind_refs
  ty_out,     \* the tree fracture made of it
  ty_res,     \* what explore returned and did: references, unifications
  ty_pc,      \* position inside bind_refs
  mn_flags,   \* main: the options noparse, notype, add, noexecute
  mn_files,   \* the wake files yet to parse
  mn_targets, \* the targets yet to lex
  mn_ok,      \* bool ok
  mn_seen,    \* which steps of the compile have failed
  mn_did,     \* what main has called of db.add_target, runtime.init, runtime.run
  mn_exit,    \* the exit status, -1 while main runs
  mn_runs,    \* how often runtime.run was called
  mn_pc,      \* position inside main
  str_q,      \* lex_str: char q, the quote that opened the literal
  str_in,     \* the input from in.cur on, token by token
  str_u,      \* char u
  str_result, \* std::string result
  str_c,      \* const char *c of the confirming loop, as an index
  str_tok,    \* the token lex_top makes of the literal
  str_pc,     \* position inside lex_str
  cl_scopes,  \* cons_lookup: the scopes from the match outwards, innermost first
  cl_ast,     \* the pattern (const AST &ast)
  cl_out,     \* the PatternTree cons_lookup returned, and what it printed
  cl_ref,     \* what rebind_ref made of a VarRef of the same name at the same place
  cl_pc,      \* position: the pattern, then the reference
  hs_bind,    \* Binding::hash: the bindings, with next, nargs, hashcode, hasher, future
  hs_recv,    \* what each Hasher handed to Binding::hash received, in order
  hs_for,     \* the binding each of these Hashers was handed in for
  hs_queue,   \* the receivers Receiver::receiveC was called with, not yet run
  hs_pend,    \* the Hashers handed to a Value::hash that has not called them yet
  hs_order,   \* which operand of binding->future[arg].hash(...) the build evaluates first
  hs_pc       \* whether the bindings exist

fbVars == <<fb_defs, fb_tarjan, fb_d, fb_p, fb_q, fb_i, fb_out, fb_cycle, fb_pc>>
pmVars ==
  <<pm_match, pm_patterns, pm_exprs, pm_ok, pm_out, pm_diag, pm_calls, pm_pc>>

pubVars == <<pub_chain, pub_files, pub_ctr, pub_file, pub_i, pub_j, pub_sub, pub_pc>>

refVars == <<ref_top, ref_out, ref_st, ref_unbound, ref_pc>>

lexVars ==
  <<lex_file, lex_input, lex_tabs, lex_indent, lex_eol, lex_next, lex_out, lex_pc>>

tyVars == <<ty_top, ty_out, ty_res, ty_pc>>

mainVars ==
  <<mn_flags, mn_files, mn_targets, mn_ok, mn_seen, mn_did, mn_exit, mn_runs, mn_pc>>

strVars == <<str_q, str_in, str_u, str_result, str_c, str_tok, str_pc>>

consVars == <<cl_scopes, cl_ast, cl_out, cl_ref, cl_pc>>

hashVars == <<hs_bind, hs_recv, hs_for, hs_queue, hs_pend, hs_order, hs_pc>>

vars == <<fbVars, pmVars, pubVars, refVars, lexVars, tyVars, mainVars, strVars, consVars, hashVars>>

\* the parts of the state a component does not touch
notFB == <<pmVars, pubVars, refVars, lexVars, tyVars, mainVars, strVars, consVars, hashVars>>
notPM == <<fbVars, pubVars, refVars, lexVars, tyVars, mainVars, strVars, consVars, hashVars>>
notPub == <<fbVars, pmVars, refVars, lexVars, tyVars, mainVars, strVars, consVars, hashVars>>
notRef == <<fbVars, pmVars, pubVars, lexVars, tyVars, mainVars, strVars, consVars, hashVars>>
notLex == <<fbVars, pmVars, pubVars, refVars, tyVars, mainVars, strVars, consVars, hashVars>>
notTy == <<fbVars, pmVars, pubVars, refVars, lexVars, mainVars, strVars, consVars, hashVars>>
notMain == <<fbVars, pmVars, pubVars, refVars, lexVars, tyVars, strVars, consVars, hashVars>>
notStr == <<fbVars, pmVars, pubVars, refVars, lexVars, tyVars, mainVars, consVars, hashVars>>
notCons == <<fbVars, pmVars, pubVars, refVars, lexVars, tyVars, mainVars, strVars, hashVars>>
notHash == <<fbVars, pmVars, pubVars, refVars, lexVars, tyVars, mainVars, strVars, consVars>>

\* ------------------------------------------------------------------------
\* Helpers
\* ------------------------------------------------------------------------

Min(a, b) == IF a < b THEN a ELSE b

\* the iteration order of a std::set<int>: ascending
RECURSIVE SortedSeq(_)
SortedSeq(S) ==
  IF S = {} THEN <<>>
  ELSE LET m == CHOOSE x \in S : \A y \in S : x <= y
       IN <<m>> \o SortedSeq(S \ {m})

NullExpr == [type |-> "Null"]
BodyExpr == [type |-> "Body"]

\* a field of ResolveDef the constructor leaves unset
Uninit == "uninit"

IsLambda(def) == def.kind = "Lambda"

\* ------------------------------------------------------------------------
\* fracture_binding: level assignment (Bellman-Ford for the longest path)
\* ------------------------------------------------------------------------

\* int w = def.expr->type == &Lambda::type ? 0 : 1;
EdgeWeightAllOne(def) == 1
EdgeWeightSwapped(def) == IF def.kind = "Lambda" THEN 1 ELSE 0
EdgeWeight(def) == IF IsLambda(def) THEN 0 ELSE 1

\* for (auto i : def.edges) if (drv + w > d[i]) { d[i] = ..; p[i] = ..; q.push(..) }
RECURSIVE RelaxEdgesNoWeight(_, _, _, _, _)
RelaxEdgesNoWeight(st, es, v, drv, w) ==
  IF es = <<>> THEN st
  ELSE LET i == Head(es)
           st1 == IF drv + w > st.d[i]
                  THEN [d |-> [st.d EXCEPT ![i] = drv],
                        p |-> [st.p EXCEPT ![i] = v],
                        q |-> Append(st.q, [v |-> i, d |-> drv])]
                  ELSE st
       IN RelaxEdgesNoWeight(st1, Tail(es), v, drv, w)

RECURSIVE RelaxEdges(_, _, _, _, _)
RelaxEdges(st, es, v, drv, w) ==
  IF es = <<>> THEN st
  ELSE LET i == Head(es)
           st1 == IF drv + w > st.d[i]
                  THEN [d |-> [st.d EXCEPT ![i] = drv + w],
                        p |-> [st.p EXCEPT ![i] = v],
                        q |-> Append(st.q, [v |-> i, d |-> drv + w])]
                  ELSE st
       IN RelaxEdges(st1, Tail(es), v, drv, w)

\* for (i = 0; i < N; ++i) { d[i] = 0; j = p[j]; }   (-1: an unset predecessor was read)
RECURSIVE WalkPred(_, _, _)
WalkPred(pp, j, n) ==
  IF n = 0 \/ j = -1 THEN j ELSE WalkPred(pp, pp[j], n - 1)

\* do { print defs[i].name; i = p[i]; } while (i != j);  fuel bounds the loop
RECURSIVE CycleNames(_, _, _, _)
CycleNames(pp, i, j, fuel) ==
  IF fuel = 0 \/ i = -1 THEN [names |-> <<>>, closed |-> FALSE]
  ELSE IF pp[i] = j THEN [names |-> <<i>>, closed |-> TRUE]
  ELSE LET r == CycleNames(pp, pp[i], j, fuel - 1)
       IN [names |-> <<i>> \o r.names, closed |-> r.closed]

NoCycle ==
  [detected |-> FALSE, from |-> -1, j |-> -1, names |-> <<>>, closed |-> FALSE]

CycleReport(pp, v, n) ==
  LET j == WalkPred(pp, v, n)
      r == CycleNames(pp, j, j, n)
  IN [detected |-> TRUE, from |-> v, j |-> j, names |-> r.names,
      closed |-> r.closed]

\* if (drv >= (int)defs.size())
LevelTooHighOffByOne(drv, n) == drv >= n - 1
LevelTooHigh(drv, n) == drv >= n

\* ------------------------------------------------------------------------
\* SCC: Tarjan's algorithm restricted to the lambdas of one level
\* ------------------------------------------------------------------------

RECURSIVE SCC(_, _, _, _, _)
RECURSIVE SCCEdges(_, _, _, _, _, _)
RECURSIVE SCCPop(_, _, _, _)

\* state.binding->fun.size() + state.binding->val.size()
FunIndexWithoutVals(binding) == Len(binding.fun)
FunIndex(binding) == Len(binding.fun) + Len(binding.val)

\* do { wi = S.back(); ... } while (wi != vi);
SCCPop(defsF, st, vi, scc_id) ==
  LET wi == st.S[Len(st.S)]
      idx == FunIndex(st.binding)
      st1 == [st EXCEPT !.S = SubSeq(st.S, 1, Len(st.S) - 1),
                        !.tj[wi].onstack = 0,
                        !.binding.order = (defsF[wi].name :> idx) @@ st.binding.order,
                        !.binding.fun = Append(@, wi),
                        !.binding.scc = Append(@, scc_id)]
  IN IF wi # vi THEN SCCPop(defsF, st1, vi, scc_id) ELSE st1

\* v.lowlink = std::min(v.lowlink, w.lowlink);  after the recursive call
LowlinkAfterCallDropped(lv, lw) == lv
LowlinkAfterCall(lv, lw) == Min(lv, lw)

\* v.lowlink = std::min(v.lowlink, w.index);  for w on the stack
LowlinkOnStack(lv, iw) == Min(lv, iw)

\* if (w.index == -1 && w.expr->type == &Lambda::type)
UnvisitedIgnored(tj, w) == FALSE
Unvisited(tj, w) == tj.index = -1 /\ IsLambda(w)

\* for (auto wi : v.edges) { ... }
SCCEdges(defsF, levelmap, level, st, vi, es) ==
  IF es = <<>> THEN st
  ELSE LET wi == Head(es)
           st1 ==
             IF levelmap[wi] # level THEN st
             ELSE IF Unvisited(st.tj[wi], defsF[wi])
             THEN LET s2 == SCC(defsF, levelmap, level, st, wi)
                  IN [s2 EXCEPT !.tj[vi].lowlink =
                        LowlinkAfterCall(s2.tj[vi].lowlink, s2.tj[wi].lowlink)]
             ELSE IF st.tj[wi].onstack # 0
             THEN [st EXCEPT !.tj[vi].lowlink =
                        LowlinkOnStack(st.tj[vi].lowlink, st.tj[wi].index)]
             ELSE st
       IN SCCEdges(defsF, levelmap, level, st1, vi, Tail(es))

SCC(defsF, levelmap, level, st, vi) ==
  LET st1 == [st EXCEPT !.tj[vi].index = st.index,
                        !.tj[vi].lowlink = st.index,
                        !.index = st.index + 1,
                        !.S = Append(st.S, vi),
                        !.tj[vi].onstack = 1]
      st2 == SCCEdges(defsF, levelmap, level, st1, vi, SortedSeq(defsF[vi].edges))
  IN IF st2.tj[vi].lowlink = st2.tj[vi].index
     THEN SCCPop(defsF, st2, vi, Len(st2.binding.fun))
     ELSE st2

\* ------------------------------------------------------------------------
\* fracture_binding: emission of one level
\* ------------------------------------------------------------------------

\* std::unique_ptr<DefBinding> bind(new DefBinding(location, std::move(out)));
NewDefBindingDropsBody(body) ==
  [type |-> "DefBinding", order |-> <<>>, val |-> <<>>, fun |-> <<>>,
   scc |-> <<>>, body |-> BodyExpr]
NewDefBinding(body) ==
  [type |-> "DefBinding", order |-> <<>>, val |-> <<>>, fun |-> <<>>,
   scc |-> <<>>, body |-> body]

\* for (auto j : levels[i]) { value: order.insert, val.emplace_back, index = 0;
\*                            lambda: index = -1;   onstack = 0 }
RECURSIVE EmitValues(_, _, _)
EmitValues(defsF, st, js) ==
  IF js = <<>> THEN st
  ELSE LET j == Head(js)
           st1 == IF ~IsLambda(defsF[j])
                  THEN [st EXCEPT
                          !.binding.order =
                             (defsF[j].name :> Len(st.binding.val)) @@ st.binding.order,
                          !.binding.val = Append(@, j),
                          !.tj[j].index = 0,
                          !.tj[j].onstack = 0]
                  ELSE [st EXCEPT !.tj[j].index = -1, !.tj[j].onstack = 0]
       IN EmitValues(defsF, st1, Tail(js))

\* for (auto j : levels[i]) if (defs[j].index == -1 && lambda) SCC(state, j);
RECURSIVE EmitFuns(_, _, _, _, _)
EmitFuns(defsF, levelmap, level, st, js) ==
  IF js = <<>> THEN st
  ELSE LET j == Head(js)
           st1 == IF st.tj[j].index = -1 /\ IsLambda(defsF[j])
                  THEN SCC(defsF, levelmap, level, st, j)
                  ELSE st
       IN EmitFuns(defsF, levelmap, level, st1, Tail(js))

\* std::vector<std::list<int> > levels(N); levels[d[i]].push_back(i);
LevelList(levelmap, level) == SortedSeq({i \in DOMAIN levelmap : levelmap[i] = level})

\* one iteration of the loop over the levels, for a level that is not empty
EmitLevel(defsF, levelmap, tj, level, body) ==
  LET js == LevelList(levelmap, level)
      st0 == [tj |-> tj, S |-> <<>>, index |-> 0, binding |-> NewDefBinding(body)]
      st1 == EmitValues(defsF, st0, js)
  IN EmitFuns(defsF, levelmap, level, st1, js)

\* ------------------------------------------------------------------------
\* fracture_binding as a state machine
\* ------------------------------------------------------------------------

NumDefs == Cardinality(DOMAIN fb_defs)
DefIds == DOMAIN fb_defs

DefNames == <<"a", "b", "c", "d", "e">>

ExprKinds == {"Lambda", "Value", "Null"}

FBInit ==
  \E n \in 0..MaxDefs :
    \E kinds \in [0..(n-1) -> ExprKinds] :
      \E E \in SUBSET ((0..(n-1)) \X (0..(n-1))) :
        /\ Cardinality(E) <= MaxEdges
        /\ fb_defs = [i \in 0..(n-1) |->
                        [name |-> DefNames[i + 1], kind |-> kinds[i],
                         edges |-> {w \in 0..(n-1) : <<i, w>> \in E}]]
        /\ fb_tarjan = [i \in 0..(n-1) |->
                        [index |-> Uninit, lowlink |-> Uninit, onstack |-> Uninit]]
        /\ fb_d = [i \in 0..(n-1) |-> 0]
        /\ fb_p = [i \in 0..(n-1) |-> -1]
        /\ fb_q = <<>>
        /\ fb_i = 0
        /\ fb_out = NullExpr
        /\ fb_cycle = NoCycle
        /\ fb_pc = "start"

\* for (i = 0; i < N; ++i) { if (!defs[i].expr) return nullptr; q.push(..) }
FBStart ==
  /\ fb_pc = "start"
  /\ IF \E i \in DefIds : fb_defs[i].kind = "Null"
     THEN /\ fb_pc' = "done"
          /\ UNCHANGED fb_q
     ELSE /\ fb_pc' = "relax"
          /\ fb_q' = [k \in 1..NumDefs |-> [v |-> k - 1, d |-> 0]]
  /\ UNCHANGED <<fb_defs, fb_tarjan, fb_d, fb_p, fb_i, fb_out, fb_cycle>>
  /\ UNCHANGED notFB

\* one iteration of while (!q.empty())
FBRelax ==
  /\ fb_pc = "relax"
  /\ fb_q # <<>>
  /\ LET rv == Head(fb_q)
         drv == fb_d[rv.v]
     IN IF rv.d < drv
        THEN /\ fb_q' = Tail(fb_q)
             /\ UNCHANGED <<fb_d, fb_p, fb_cycle, fb_pc>>
        ELSE IF LevelTooHigh(drv, NumDefs)
        THEN /\ fb_d' = [i \in DefIds |-> 0]
             /\ fb_cycle' = CycleReport(fb_p, rv.v, NumDefs)
             /\ fb_q' = Tail(fb_q)
             /\ fb_pc' = "done"
             /\ UNCHANGED fb_p
        ELSE LET st == RelaxEdges([d |-> fb_d, p |-> fb_p, q |-> Tail(fb_q)],
                                  SortedSeq(fb_defs[rv.v].edges), rv.v, drv,
                                  EdgeWeight(fb_defs[rv.v]))
             IN /\ fb_d' = st.d
                /\ fb_p' = st.p
                /\ fb_q' = st.q
                /\ UNCHANGED <<fb_cycle, fb_pc>>
  /\ UNCHANGED <<fb_defs, fb_tarjan, fb_i, fb_out>>
  /\ UNCHANGED notFB

\* the queue ran empty: levels are built and out starts as the caller's body
FBLevels ==
  /\ fb_pc = "relax"
  /\ fb_q = <<>>
  /\ fb_out' = BodyExpr
  /\ fb_i' = 0
  /\ fb_pc' = "emit"
  /\ UNCHANGED <<fb_defs, fb_tarjan, fb_d, fb_p, fb_q, fb_cycle>>
  /\ UNCHANGED notFB

\* one iteration of for (i = 0; i < N; ++i) over the levels
FBEmit ==
  /\ fb_pc = "emit"
  /\ fb_i < NumDefs
  /\ IF LevelList(fb_d, fb_i) = <<>>
     THEN UNCHANGED <<fb_out, fb_tarjan>>
     ELSE LET st == EmitLevel(fb_defs, fb_d, fb_tarjan, fb_i, fb_out)
          IN /\ fb_out' = st.binding
             /\ fb_tarjan' = st.tj
  /\ fb_i' = fb_i + 1
  /\ UNCHANGED <<fb_defs, fb_d, fb_p, fb_q, fb_cycle, fb_pc>>
  /\ UNCHANGED notFB

\* return out;
FBReturn ==
  /\ fb_pc = "emit"
  /\ fb_i = NumDefs
  /\ fb_pc' = "done"
  /\ UNCHANGED <<fb_defs, fb_tarjan, fb_d, fb_p, fb_q, fb_i, fb_out, fb_cycle>>
  /\ UNCHANGED notFB

\* rebind_match is not running
PMIdle ==
  /\ pm_match = <<>>
  /\ pm_patterns = <<>>
  /\ pm_exprs = <<>>
  /\ pm_ok = TRUE
  /\ pm_out = NullExpr
  /\ pm_diag = <<>>
  /\ pm_calls = <<>>
  /\ pm_pc = "idle"

\* no publish map is being chained
PubIdle ==
  /\ pub_chain = <<>>
  /\ pub_files = <<>>
  /\ pub_ctr = 0
  /\ pub_file = 0
  /\ pub_i = 0
  /\ pub_j = 0
  /\ pub_sub = NullExpr
  /\ pub_pc = "idle"

\* bind_refs is not running
RefIdle ==
  /\ ref_top = NullExpr
  /\ ref_out = NullExpr
  /\ ref_st = <<>>
  /\ ref_unbound = <<>>
  /\ ref_pc = "idle"

\* no Lexer was constructed
LexIdle ==
  /\ lex_file = <<>>
  /\ lex_input = <<>>
  /\ lex_tabs = <<>>
  /\ lex_indent = 0
  /\ lex_eol = FALSE
  /\ lex_next = "ERROR"
  /\ lex_out = <<>>
  /\ lex_pc = "idle"

\* no tree is being typed
TyIdle ==
  /\ ty_top = NullExpr
  /\ ty_out = NullExpr
  /\ ty_res = <<>>
  /\ ty_pc = "idle"

\* main is not running
MainIdle ==
  /\ mn_flags = <<>>
  /\ mn_files = 0
  /\ mn_targets = 0
  /\ mn_ok = TRUE
  /\ mn_seen = {}
  /\ mn_did = {}
  /\ mn_exit = -1
  /\ mn_runs = 0
  /\ mn_pc = "idle"

\* lex_str is not running
StrIdle ==
  /\ str_q = 0
  /\ str_in = <<>>
  /\ str_u = 0
  /\ str_result = <<>>
  /\ str_c = 0
  /\ str_tok = ""
  /\ str_pc = "idle"

\* cons_lookup is not running
ConsIdle ==
  /\ cl_scopes = <<>>
  /\ cl_ast = <<>>
  /\ cl_out = <<>>
  /\ cl_ref = <<>>
  /\ cl_pc = "idle"

\* no binding exists
HashIdle ==
  /\ hs_bind = <<>>
  /\ hs_recv = <<>>
  /\ hs_for = <<>>
  /\ hs_queue = <<>>
  /\ hs_pend = <<>>
  /\ hs_order = ""
  /\ hs_pc = "idle"

InitFB == FBInit /\ PMIdle /\ PubIdle /\ RefIdle /\ LexIdle /\ TyIdle /\ MainIdle /\ StrIdle /\ ConsIdle /\ HashIdle

NextFB == FBStart \/ FBRelax \/ FBLevels \/ FBEmit \/ FBReturn

SpecFB == InitFB /\ [][NextFB]_vars

\* ------------------------------------------------------------------------
\* Properties of fracture_binding
\* ------------------------------------------------------------------------

AllNonNull == \A i \in DefIds : fb_defs[i].kind # "Null"

\* the definitions reachable from the set S along edges that stay inside Allowed
RECURSIVE ReachFrom(_, _, _)
ReachFrom(defsF, Allowed, S) ==
  LET T == S \cup (UNION {defsF[i].edges : i \in S} \cap Allowed)
  IN IF T = S THEN S ELSE ReachFrom(defsF, Allowed, T)

\* b is reached from a by one or more references that stay inside Allowed
Reaches(defsF, Allowed, a, b) ==
  /\ a \in Allowed
  /\ b \in ReachFrom(defsF, Allowed, defsF[a].edges \cap Allowed)

ValueIds == {i \in DefIds : fb_defs[i].kind = "Value"}
LambdaIds == {i \in DefIds : fb_defs[i].kind = "Lambda"}

\* a reference cycle all of whose members are non-lambda values
PureValueCycle == \E v \in ValueIds : Reaches(fb_defs, ValueIds, v, v)

\* a reference cycle that passes through at least one non-lambda value
CycleThroughValue == \E v \in ValueIds : Reaches(fb_defs, DefIds, v, v)

\* the DefBindings of an expression, outermost first
RECURSIVE Layers(_)
Layers(e) == IF e.type = "DefBinding" THEN <<e>> \o Layers(e.body) ELSE <<>>

\* what the innermost DefBinding wraps
RECURSIVE InnermostBody(_)
InnermostBody(e) == IF e.type = "DefBinding" THEN InnermostBody(e.body) ELSE e

SeqRange(s) == {s[k] : k \in DOMAIN s}
Members(b) == SeqRange(b.val) \cup SeqRange(b.fun)

FBSucceeded == fb_pc = "done" /\ fb_out # NullExpr

\* the positions (outermost = 1) of the layers of out that bind definition w
LayersOf(w) == {k \in DOMAIN Layers(fb_out) : w \in Members(Layers(fb_out)[k])}

\* C1 (as stated): every definition referenced by a plain value of an emitted
\* DefBinding is bound in a different layer that was emitted earlier, i.e. in a
\* layer nested inside the value's own layer.
C1_EarlierLayer ==
  FBSucceeded =>
    \A k \in DOMAIN Layers(fb_out) :
      \A v \in SeqRange(Layers(fb_out)[k].val) :
        \A w \in fb_defs[v].edges :
          \E k2 \in LayersOf(w) : k2 > k

\* C1 (amended): whenever fracture_binding succeeds, every definition lies in
\* exactly one emitted layer, every definition referenced by a plain value is
\* bound in a different layer that encloses the value's layer (it is emitted
\* later, never in the value's own DefBinding), and no value reaches itself
\* through value-to-value references.
C1_FractureSoundness ==
  FBSucceeded =>
    /\ \A w \in DefIds : Cardinality(LayersOf(w)) = 1
    /\ \A k \in DOMAIN Layers(fb_out) :
         \A v \in SeqRange(Layers(fb_out)[k].val) :
           /\ fb_defs[v].kind = "Value"
           /\ \A w \in fb_defs[v].edges :
                /\ w \notin Members(Layers(fb_out)[k])
                /\ \E k2 \in LayersOf(w) : k2 < k
    /\ ~PureValueCycle

\* a succeeded run in which a value references a value and a lambda
C1_Witness ==
  /\ FBSucceeded
  /\ \E v \in ValueIds : \E w \in ValueIds : \E f \in LambdaIds :
       {w, f} \subseteq fb_defs[v].edges

\* C3 (as stated): with all definitions present, the cycle report is printed
\* exactly when some cycle consists of non-lambda values only, and a scope
\* without such a cycle succeeds.
C3_PureValueCycleOnly ==
  (fb_pc = "done" /\ AllNonNull) =>
    /\ fb_cycle.detected <=> PureValueCycle
    /\ ~PureValueCycle => fb_out # NullExpr

\* C3 (amended): with all definitions present, fracture_binding prints the cycle
\* report and returns null exactly when the reference graph has a cycle through
\* at least one non-lambda value (lambdas may lie on it); otherwise (also when
\* the only cycles are among lambdas) it succeeds and every level is below N.
C3_ValueCycleDetection ==
  /\ (fb_pc = "done" /\ AllNonNull) =>
       /\ fb_cycle.detected <=> CycleThroughValue
       /\ fb_cycle.detected => fb_out = NullExpr
       /\ ~CycleThroughValue => fb_out # NullExpr
  /\ (fb_pc \in {"emit", "done"} /\ ~fb_cycle.detected) =>
       \A v \in DefIds : fb_d[v] < NumDefs

\* a cycle through a value and a lambda, no cycle of values only, reported
C3_Witness ==
  /\ fb_pc = "done"
  /\ fb_cycle.detected
  /\ CycleThroughValue
  /\ ~PureValueCycle

\* a scope whose only cycle is among lambdas succeeds
C3_LambdaCycleSucceeds ==
  /\ FBSucceeded
  /\ \E f \in LambdaIds : \E g \in LambdaIds \ {f} : Reaches(fb_defs, DefIds, f, g)
                                                   /\ Reaches(fb_defs, DefIds, g, f)

\* def x = 1 / def y = x: definition 0 is x, definition 1 is y
IsXYExample ==
  /\ NumDefs = 2
  /\ fb_defs[0].kind = "Value" /\ fb_defs[0].edges = {}
  /\ fb_defs[1].kind = "Value" /\ fb_defs[1].edges = {0}

\* C6 (as stated): after the relaxation every non-lambda definition references
\* only definitions of strictly lower level; x is at level 0 and y at level 1.
C6_LowerLevels ==
  fb_pc = "emit" =>
    /\ \A v \in ValueIds : \A w \in fb_defs[v].edges : fb_d[w] < fb_d[v]
    /\ IsXYExample => (fb_d[0] = 0 /\ fb_d[1] = 1)

\* C6 (amended): after the relaxation every non-lambda definition references
\* only definitions of strictly higher level and every lambda only definitions
\* of the same or a higher level; for def x = 1 / def y = x + 1 this puts x at
\* level 1 and y at level 0.
C6_LevelDirection ==
  fb_pc = "emit" =>
    /\ \A v \in ValueIds : \A w \in fb_defs[v].edges : fb_d[w] > fb_d[v]
    /\ \A f \in LambdaIds : \A w \in fb_defs[f].edges : fb_d[w] >= fb_d[f]
    /\ IsXYExample => (fb_d[0] = 1 /\ fb_d[1] = 0)

\* the relaxation finished on def x = 1 / def y = x
C6_Witness == fb_pc = "emit" /\ IsXYExample

\* the definitions that share the level of definition a
SameLevel(a) == {w \in DefIds : fb_d[w] = fb_d[a]}

\* each of a, b is reached from the other through references among the
\* definitions of their level
MutuallyReachable(a, b) ==
  \/ a = b
  \/ /\ Reaches(fb_defs, SameLevel(a), a, b)
     /\ Reaches(fb_defs, SameLevel(a), b, a)

\* C2: in every emitted DefBinding every function has an scc id, and two
\* functions fun[i], fun[j] share the scc id iff each is reachable from the
\* other through references among the definitions of that level.
C2_SCCMinimality ==
  FBSucceeded =>
    \A k \in DOMAIN Layers(fb_out) :
      LET b == Layers(fb_out)[k]
      IN /\ Len(b.scc) = Len(b.fun)
         /\ \A i \in DOMAIN b.fun : \A j \in DOMAIN b.fun :
              (b.scc[i] = b.scc[j]) <=> MutuallyReachable(b.fun[i], b.fun[j])

\* a layer with two functions in one SCC and a third function in another SCC
\* that references them
C2_Witness ==
  /\ FBSucceeded
  /\ \E k \in DOMAIN Layers(fb_out) :
       LET b == Layers(fb_out)[k]
       IN \E i \in DOMAIN b.fun : \E j \in DOMAIN b.fun : \E h \in DOMAIN b.fun :
            /\ i # j /\ b.scc[i] = b.scc[j] /\ b.scc[h] # b.scc[i]
            /\ b.fun[i] \in fb_defs[b.fun[h]].edges

\* C7 (as stated): the body of the outermost DefBinding of the returned chain is
\* the caller-supplied tail expression.
C7_OutermostWrapsTail ==
  (FBSucceeded /\ fb_out.type = "DefBinding") => fb_out.body = BodyExpr

\* C7 (amended): the chain is built from the inside out: the innermost, first
\* emitted DefBinding (the lowest level) has the caller-supplied tail as its
\* body and every DefBinding emitted later (for a higher level) wraps the chain
\* emitted before it, so the returned outermost DefBinding is the highest
\* level; no level is lost and no layer is empty.
C7_Nesting ==
  (fb_pc \in {"emit", "done"} /\ fb_out # NullExpr) =>
    LET L == Layers(fb_out)
    IN /\ InnermostBody(fb_out) = BodyExpr
       /\ UNION {Members(L[k]) : k \in DOMAIN L} = {w \in DefIds : fb_d[w] < fb_i}
       /\ \A k \in DOMAIN L :
            /\ Members(L[k]) # {}
            /\ \A k2 \in DOMAIN L : k < k2 =>
                 \A m \in Members(L[k]) : \A m2 \in Members(L[k2]) : fb_d[m] > fb_d[m2]

\* a returned chain of three nested DefBindings
C7_Witness == FBSucceeded /\ Len(Layers(fb_out)) = 3

\* ------------------------------------------------------------------------
\* The pattern compiler: PatternTree, find_mismatch, expand_patterns
\* ------------------------------------------------------------------------

\* PatternTree::sum == nullptr: the position is not expanded
NoSum == "nullptr"

\* Sum multiarg(AST(LOCATION)) of rebind_match: one member taking every argument
MultiArg == "multiarg"

\* the sums the patterns of the model name: members in index order
Sums ==
  [Boolean |-> <<[name |-> "True", nargs |-> 0], [name |-> "False", nargs |-> 0]>>,
   List    |-> <<[name |-> "Nil", nargs |-> 0], [name |-> "Cons", nargs |-> 2]>>]

\* sum->members, with the number of arguments of every member
SumMembers(sum, nargs) ==
  IF sum = MultiArg THEN <<[name |-> "", nargs |-> nargs]>> ELSE Sums[sum]

\* c < sum->members.size()
NumMembersOffByOne(sum, nargs) == Len(SumMembers(sum, nargs)) - 1
NumMembers(sum, nargs) == Len(SumMembers(sum, nargs))

\* PatternTree(int var_ = -1) : sum(0), cons(0), var(var_)
PatternTree(var) == [sum |-> NoSum, cons |-> 0, var |-> var, children |-> <<>>]

\* for (auto i : path) t = &t->children[i];
RECURSIVE get_expansion(_, _)
get_expansion(t, path) ==
  IF path = <<>> THEN t ELSE get_expansion(t.children[Head(path) + 1], Tail(path))

\* an assignment through the pointer get_expansion returns
RECURSIVE set_expansion(_, _, _)
set_expansion(t, path, new) ==
  IF path = <<>> THEN new
  ELSE [t EXCEPT !.children[Head(path) + 1] = set_expansion(@, Tail(path), new)]

\* assumes a detail <= b: the first position, children left to right, where a is
\* not expanded; the sum b names there (NoSum when b is not expanded either)
RECURSIVE find_mismatch(_, _, _)
RECURSIVE find_mismatch_children(_, _, _, _)
find_mismatch(path, a, b) ==
  IF a.sum = NoSum THEN [sum |-> b.sum, path |-> path]
  ELSE find_mismatch_children(path, a, b, 0)
find_mismatch_children(path, a, b, i) ==
  IF i >= Len(a.children) THEN [sum |-> NoSum, path |-> path]
  ELSE LET r == find_mismatch(Append(path, i), a.children[i + 1], b.children[i + 1])
       IN IF r.sum # NoSum THEN r ELSE find_mismatch_children(path, a, b, i + 1)

\* the "_ a<n>" variables applied to the arm: where b binds a variable
RECURSIVE fill_pattern(_, _)
RECURSIVE fill_pattern_children(_, _, _)
fill_pattern(a, b) ==
  IF b.var >= 0 THEN <<a.var>> ELSE fill_pattern_children(a, b, 1)
fill_pattern_children(a, b, i) ==
  IF i > Len(a.children) THEN <<>>
  ELSE fill_pattern(a.children[i], b.children[i]) \o fill_pattern_children(a, b, i + 1)

\* what std::move(*p) leaves behind in the vector slot: scalars stay, the
\* children vector is gone
MovedFrom(p, marker) ==
  [p EXCEPT !.tree.children = <<>>, !.index = marker]

\* t->sum = sum; t->cons = c; t->children.resize(args); prototype: c.var = var++
Expanded(t, sum, c, args, isPrototype, var) ==
  [t EXCEPT !.sum = sum, !.cons = c,
            !.children = [i \in 1..args |->
                            PatternTree(IF isPrototype THEN var + i - 1 ELSE -1)]]

\* else if (t->sum != sum)
OtherSum(t, sum) == t.sum # sum

\* for (auto p = patterns.begin(); p != patterns.end(); ++p) { ... bucket ... }
RECURSIVE FillBucket(_, _, _, _, _, _, _, _)
FillBucket(patterns, bucket, k, sum, expand, c, args, var) ==
  IF k > Len(patterns) THEN [patterns |-> patterns, bucket |-> bucket, error |-> <<>>]
  ELSE LET p == patterns[k]
           t == get_expansion(p.tree, expand)
       IN IF t.sum = NoSum
          THEN LET p1 == [p EXCEPT !.tree =
                            set_expansion(p.tree, expand,
                                          Expanded(t, sum, c, args, k = 1, var))]
               IN FillBucket([patterns EXCEPT ![k] = MovedFrom(p1, -1)],
                             Append(bucket, p1), k + 1, sum, expand, c, args, var)
          ELSE IF OtherSum(t, sum)
          THEN [patterns |-> patterns, bucket |-> bucket,
                error |-> <<[kind |-> "NotAMember", cons |-> t.cons, of |-> t.sum,
                             sum |-> sum, row |-> p.index]>>]
          ELSE IF t.cons = c
          THEN FillBucket([patterns EXCEPT ![k] = MovedFrom(p, -2)],
                          Append(bucket, p), k + 1, sum, expand, c, args, var)
          ELSE FillBucket(patterns, bucket, k + 1, sum, expand, c, args, var)

\* for (auto p = patterns.rbegin(); p != patterns.rend(); ++p) { ... restore ... }
RECURSIVE RestoreRows(_, _, _, _)
RestoreRows(patterns, bucket, k, expand) ==
  IF k = 0 THEN patterns
  ELSE IF patterns[k].index = -1
  THEN LET p == bucket[Len(bucket)]
           t == get_expansion(p.tree, expand)
           p1 == [p EXCEPT !.tree =
                    set_expansion(p.tree, expand,
                                  [t EXCEPT !.sum = NoSum, !.children = <<>>])]
       IN RestoreRows([patterns EXCEPT ![k] = p1],
                      SubSeq(bucket, 1, Len(bucket) - 1), k - 1, expand)
  ELSE IF patterns[k].index = -2
  THEN RestoreRows([patterns EXCEPT ![k] = bucket[Len(bucket)]],
                   SubSeq(bucket, 1, Len(bucket) - 1), k - 1, expand)
  ELSE RestoreRows(patterns, bucket, k - 1, expand)

\* the lambdas around one continuation "_ c<c>": "_", then "_ a<var>" ...
CaseLambdas(var, args) == <<"_">> \o [i \in 1..args |-> var + i - 1]

\* deepest nesting of expand_patterns calls the model follows
MaxDepth == 8

\* one recursive call of expand_patterns: the rows of the caller, the rows
\* handed down, and the position expanded (member case)
ExpandCall(kind, depth, patterns, rows, expand) ==
  [kind |-> kind, depth |-> depth, parent |-> patterns, child |-> rows,
   path |-> expand]

RECURSIVE expand_patterns(_, _, _)
RECURSIVE ExpandMembers(_, _, _, _, _, _, _, _)

\* for (size_t c = 0; c < sum->members.size(); ++c) { ... }  and the final App
ExpandMembers(patterns, nargs, sum, expand, c, cases, calls, depth) ==
  IF c >= NumMembers(sum, nargs)
  THEN [expr |-> [type |-> "Destruct", sum |-> sum, path |-> expand,
                  arg |-> get_expansion(patterns[1].tree, expand).var,
                  cases |-> cases],
        patterns |-> patterns, diag |-> <<>>, calls |-> calls]
  ELSE LET args == SumMembers(sum, nargs)[c + 1].nargs
           var == patterns[1].index
           pats1 == [patterns EXCEPT ![1].index = var + args]
           fill == FillBucket(pats1, <<>>, 1, sum, expand, c, args, var)
       IN IF fill.error # <<>>
          THEN [expr |-> NullExpr, patterns |-> fill.patterns, diag |-> fill.error,
                calls |-> calls]
          ELSE LET r == expand_patterns(fill.bucket, nargs, depth + 1)
                   done == Append(calls, ExpandCall("member", depth + 1, patterns,
                                                    fill.bucket, expand))
                             \o r.calls
               IN IF r.expr = NullExpr
                  THEN [expr |-> NullExpr, patterns |-> fill.patterns,
                        diag |-> r.diag, calls |-> done]
                  ELSE ExpandMembers(
                         RestoreRows(fill.patterns, r.patterns, Len(patterns), expand),
                         nargs, sum, expand, c + 1,
                         Append(cases, [lambdas |-> CaseLambdas(var, args),
                                        body |-> r.expr]),
                         done, depth)

\* the arm the prototype matches completely: patterns[1] of the source
ArmLeaf(prototype, p) ==
  [type |-> "Arm", f |-> p.index, args |-> <<0>> \o fill_pattern(prototype.tree, p.tree)]

\* ++p.uses
CountUseForgotten(p) == p
CountUse(p) == [p EXCEPT !.uses = @ + 1]

\* destruct Boolean (\_ guard_true) (\_ guard_false) (_ g<index> _ a0 ...)
GuardAssumedTrue(p, guard_true, guard_false) == guard_true
GuardTree(p, guard_true, guard_false) ==
  [type |-> "Guard", g |-> p.index, args |-> guard_true.args,
   yes |-> guard_true, no |-> guard_false]

\* "; missing: " << prototype.tree
MissingRoot(prototype) == PatternTree(prototype.tree.var)
Missing(prototype) == prototype.tree

\* PatternRef save(std::move(patterns[1])); patterns.erase(patterns.begin()+1);
EraseGuardedKeepsRow(patterns) == patterns
EraseGuarded(patterns) == <<patterns[1]>> \o SubSeq(patterns, 3, Len(patterns))

\* std::unique_ptr<Expr> expand_patterns(std::vector<PatternRef> &patterns);
\* depth is the nesting of the call, and a call nested deeper than MaxDepth is
\* cut off with the diagnostic "TooDeep"
expand_patterns(patterns, nargs, depth) ==
  IF depth > MaxDepth
  THEN [expr |-> NullExpr, patterns |-> patterns,
        diag |-> <<[kind |-> "TooDeep"]>>, calls |-> <<>>]
  ELSE IF Len(patterns) = 1
  THEN [expr |-> NullExpr, patterns |-> patterns,
        diag |-> <<[kind |-> "NonExhaustive", missing |-> Missing(patterns[1])]>>,
        calls |-> <<>>]
  ELSE LET mm == find_mismatch(<<>>, patterns[1].tree, patterns[2].tree)
       IN IF mm.sum # NoSum
          THEN ExpandMembers(patterns, nargs, mm.sum, mm.path, 0, <<>>, <<>>, depth)
          ELSE LET p == CountUse(patterns[2])
                   used == [patterns EXCEPT ![2] = p]
                   guard_true == ArmLeaf(patterns[1], p)
               IN IF ~p.guard
                  THEN [expr |-> guard_true, patterns |-> used, diag |-> <<>>,
                        calls |-> <<>>]
                  ELSE LET rest == EraseGuarded(used)
                           r == expand_patterns(rest, nargs, depth + 1)
                           back == <<r.patterns[1], p>>
                                     \o SubSeq(r.patterns, 2, Len(r.patterns))
                           done == <<ExpandCall("guard", depth + 1, used, rest, <<>>)>>
                                     \o r.calls
                       IN IF r.expr = NullExpr
                          THEN [expr |-> NullExpr, patterns |-> back, diag |-> r.diag,
                                calls |-> done]
                          ELSE [expr |-> GuardTree(p, guard_true, r.expr),
                                patterns |-> back, diag |-> <<>>, calls |-> done]

\* ------------------------------------------------------------------------
\* cons_lookup and rebind_match
\* ------------------------------------------------------------------------

\* the lowercase identifiers of the model (Lexer::isLower)
LowerNames == {"x", "y"}
IsLower(name) == name \in LowerNames

\* the body under the leading lambdas of a definition
RECURSIVE StripLambdas(_)
StripLambdas(e) == IF e.type = "Lambda" THEN StripLambdas(e.body) ELSE e

\* iter->index.find(prefix + " " + name), then iter->index.find(name)
ScopeFind(scope, name) ==
  LET file_local == ToString(scope.prefix) \o " " \o name
  IN IF scope.prefix >= 0 /\ file_local \in DOMAIN scope.index
     THEN scope.index[file_local]
     ELSE IF name \in DOMAIN scope.index THEN scope.index[name] ELSE -1

\* for (iter = binding; iter; iter = iter->parent): every scope that defines the
\* name as a constructor overwrites out.sum and out.cons
RECURSIVE ConsScopes(_, _, _)
ConsScopes(chain, name, out) ==
  IF chain = <<>> THEN out
  ELSE LET scope == Head(chain)
           it == ScopeFind(scope, name)
           cons == IF it = -1 THEN NullExpr ELSE scope.defs[it + 1].expr
           body == IF cons = NullExpr THEN cons ELSE StripLambdas(cons)
           out1 == IF body.type = "Construct"
                   THEN [out EXCEPT !.sum = body.sum, !.cons = body.cons]
                   ELSE out
       IN ConsScopes(Tail(chain), name, out1)

\* PatternTree cons_lookup(binding, expr, guard, ast, multiarg): the tree, the
\* lambdas it wraps around the arm (outermost first) and what it prints
RECURSIVE cons_lookup(_, _, _)
RECURSIVE cons_lookup_args(_, _, _, _)
cons_lookup(chain, ast, nargs) ==
  IF ast.name = "_"
  THEN [tree |-> PatternTree(-1), lambdas |-> <<>>, diag |-> <<>>]
  ELSE IF ast.name # "" /\ IsLower(ast.name)
  THEN [tree |-> PatternTree(0), lambdas |-> <<ast.name>>, diag |-> <<>>]
  ELSE LET found == ConsScopes(chain, ast.name, PatternTree(-1))
           out == IF ast.name = "" THEN [found EXCEPT !.sum = MultiArg] ELSE found
       IN IF out.sum = NoSum
          THEN [tree |-> [out EXCEPT !.var = 0], lambdas |-> <<>>,
                diag |-> <<[kind |-> "ConstructorNotFound", name |-> ast.name]>>]
          ELSE IF SumMembers(out.sum, nargs)[out.cons + 1].nargs # Len(ast.args)
          THEN [tree |-> [out EXCEPT !.sum = NoSum, !.var = 0], lambdas |-> <<>>,
                diag |-> <<[kind |-> "WrongParameterCount", name |-> ast.name]>>]
          ELSE LET r == cons_lookup_args(chain, ast.args, Len(ast.args), nargs)
               IN [tree |-> [out EXCEPT !.children = r.children],
                   lambdas |-> r.lambdas, diag |-> r.diag]

\* for (auto a = ast.args.rbegin(); a != ast.args.rend(); ++a) ...; std::reverse
cons_lookup_args(chain, args, k, nargs) ==
  IF k = 0 THEN [children |-> <<>>, lambdas |-> <<>>, diag |-> <<>>]
  ELSE LET last == cons_lookup(chain, args[k], 0)
           r == cons_lookup_args(chain, args, k - 1, nargs)
       IN [children |-> Append(r.children, last.tree),
           lambdas |-> r.lambdas \o last.lambdas,
           diag |-> last.diag \o r.diag]

\* PatternRef for the prototype: uses = 1, index = number of arguments
Prototype(nargs) ==
  [tree |-> IF nargs = 1 THEN PatternTree(0)
            ELSE [sum |-> MultiArg, cons |-> 0, var |-> -1,
                  children |-> [i \in 1..nargs |-> PatternTree(i - 1)]],
   index |-> nargs, uses |-> 1, guard |-> FALSE]

\* ok &= !patterns.front().tree.sum || patterns.back().tree.sum;
ArmOk(prototype, tree) == prototype.tree.sum = NoSum \/ tree.sum # NoSum

\* the first row nobody uses, 0 when every row is used
RECURSIVE FirstUnused(_, _)
FirstUnused(patterns, k) ==
  IF k > Len(patterns) THEN 0
  ELSE IF patterns[k].uses = 0 THEN k ELSE FirstUnused(patterns, k + 1)

\* ------------------------------------------------------------------------
\* rebind_match as a state machine
\* ------------------------------------------------------------------------

\* largest number of arms of a match
MaxArms == 3
\* largest number of arms of a match that carry a guard
MaxGuards == 1

Leaf(n) == [name |-> n, args |-> <<>>]

\* the sub-patterns the model puts under Cons
ChildPats == {Leaf("_"), Leaf("True"), Leaf("False"), Leaf("Nil")}

\* the patterns of a match on one argument
ArmPats ==
  {Leaf("_"), Leaf("x"), Leaf("True"), Leaf("False"), Leaf("Nil"), Leaf("Foo")}
  \cup {[name |-> "Cons", args |-> <<a, b>>] : a \in ChildPats, b \in ChildPats}
  \cup {[name |-> "Cons", args |-> <<Leaf("x")>>]}

\* the sub-patterns and the patterns of a match on two arguments
PairPats == {Leaf("_"), Leaf("True"), Leaf("False")}
ArmPairs ==
  {[name |-> "", args |-> <<a, b>>] : a \in PairPats, b \in PairPats}
  \cup {[name |-> "", args |-> <<Leaf("_")>>]}

Construct(sum, cons) == [type |-> "Construct", sum |-> sum, cons |-> cons]
Lambda(name, body) == [type |-> "Lambda", name |-> name, body |-> body]

\* the scope of the match: one file (prefix 0) whose globals are the constructors
ConstructorScope ==
  [prefix |-> 0,
   index |-> [True |-> 0, False |-> 1, Nil |-> 2, Cons |-> 3],
   defs |-> <<[name |-> "True", expr |-> Construct("Boolean", 0)],
              [name |-> "False", expr |-> Construct("Boolean", 1)],
              [name |-> "Nil", expr |-> Construct("List", 0)],
              [name |-> "Cons",
               expr |-> Lambda("head", Lambda("tail", Construct("List", 1)))]>>]

PMInit ==
  \E nargs \in 1..2 :
    \E n \in 1..MaxArms :
      \E pats \in [1..n -> IF nargs = 1 THEN ArmPats ELSE ArmPairs] :
        \E guarded \in SUBSET (1..n) :
          /\ Cardinality(guarded) <= MaxGuards
          /\ pm_match = [nargs |-> nargs,
                         arms |-> [i \in 1..n |->
                                     [pattern |-> pats[i], guard |-> i \in guarded]],
                         binding |-> <<ConstructorScope>>]
          /\ pm_patterns = <<>>
          /\ pm_exprs = <<>>
          /\ pm_ok = TRUE
          /\ pm_out = NullExpr
          /\ pm_diag = <<>>
          /\ pm_calls = <<>>
          /\ pm_pc = "start"

\* for (auto &p : match->patterns) { ... cons_lookup ... ++f; }
RECURSIVE BuildRows(_, _, _)
BuildRows(m, st, f) ==
  IF f >= Len(m.arms) THEN st
  ELSE LET arm == m.arms[f + 1]
           r == cons_lookup(m.binding, arm.pattern, m.nargs)
       IN BuildRows(m,
            [patterns |-> Append(st.patterns,
                                 [tree |-> r.tree, index |-> f, uses |-> 0,
                                  guard |-> arm.guard]),
             ok |-> (st.ok /\ ArmOk(st.patterns[1], r.tree)),
             exprs |-> Append(st.exprs, <<"_">> \o r.lambdas),
             diag |-> st.diag \o r.diag],
            f + 1)

\* lines 493-538: the prototype row and one row for every arm
PMStart ==
  /\ pm_pc = "start"
  /\ LET st == BuildRows(pm_match,
                         [patterns |-> <<Prototype(pm_match.nargs)>>, ok |-> TRUE,
                          exprs |-> <<>>, diag |-> <<>>], 0)
     IN /\ pm_patterns' = st.patterns
        /\ pm_ok' = st.ok
        /\ pm_exprs' = st.exprs
        /\ pm_diag' = st.diag
  /\ pm_pc' = "arms"
  /\ UNCHANGED <<pm_match, pm_out, pm_calls>>
  /\ UNCHANGED notPM

\* if (!ok) return nullptr; map->body = expand_patterns(patterns);
\* if (!map->body) return nullptr;
PMExpand ==
  /\ pm_pc = "arms"
  /\ IF ~pm_ok
     THEN /\ pm_pc' = "done"
          /\ UNCHANGED <<pm_patterns, pm_out, pm_diag, pm_calls>>
     ELSE LET r == expand_patterns(pm_patterns, pm_match.nargs, 1)
          IN /\ pm_patterns' = r.patterns
             /\ pm_calls' = r.calls
             /\ pm_out' = r.expr
             /\ pm_diag' = pm_diag \o r.diag
             /\ pm_pc' = IF r.expr = NullExpr THEN "done" ELSE "uses"
  /\ UNCHANGED <<pm_match, pm_exprs, pm_ok>>
  /\ UNCHANGED notPM

\* for (auto &p : patterns) if (!p.uses) { "Pattern unreachable"; return nullptr; }
\* return DefMap::dont_generalize(std::move(map));
PMCheckUses ==
  /\ pm_pc = "uses"
  /\ LET k == FirstUnused(pm_patterns, 1)
     IN IF k # 0
        THEN /\ pm_out' = NullExpr
             /\ pm_diag' = Append(pm_diag, [kind |-> "Unreachable",
                                            row |-> pm_patterns[k].index])
        ELSE UNCHANGED <<pm_out, pm_diag>>
  /\ pm_pc' = "done"
  /\ UNCHANGED <<pm_match, pm_patterns, pm_exprs, pm_ok, pm_calls>>
  /\ UNCHANGED notPM

\* fracture_binding is not running
FBIdle ==
  /\ fb_defs = <<>>
  /\ fb_tarjan = <<>>
  /\ fb_d = <<>>
  /\ fb_p = <<>>
  /\ fb_q = <<>>
  /\ fb_i = 0
  /\ fb_out = NullExpr
  /\ fb_cycle = NoCycle
  /\ fb_pc = "idle"

InitPM == PMInit /\ FBIdle /\ PubIdle /\ RefIdle /\ LexIdle /\ TyIdle /\ MainIdle /\ StrIdle /\ ConsIdle /\ HashIdle

NextPM == PMStart \/ PMExpand \/ PMCheckUses

SpecPM == InitPM /\ [][NextPM]_vars

\* ------------------------------------------------------------------------
\* Properties of the pattern compiler
\* ------------------------------------------------------------------------

\* the types a scrutinee of the model can have
TBoolean == [k |-> "Boolean"]
TAny == [k |-> "Any"]
TList(elem) == [k |-> "List", elem |-> elem]
TArgs(tys) == [k |-> "Args", of |-> tys]

ArgTypes == {TBoolean, TList(TBoolean), TList(TList(TAny)), TList(TAny)}

MatchTypes ==
  IF pm_match.nargs = 1 THEN ArgTypes
  ELSE {TArgs(tys) : tys \in [1..pm_match.nargs -> ArgTypes]}

\* a value the patterns cannot look into
AnyValue == [sum |-> "Any", cons |-> 0, children |-> <<>>]
Value(sum, cons, children) == [sum |-> sum, cons |-> cons, children |-> children]

\* the values of a type, spelled out to the given depth
RECURSIVE ValuesOf(_, _)
ValuesOf(ty, depth) ==
  IF ty.k = "Any" \/ depth = 0 THEN {AnyValue}
  ELSE IF ty.k = "Boolean" THEN {Value("Boolean", 0, <<>>), Value("Boolean", 1, <<>>)}
  ELSE IF ty.k = "List"
  THEN {Value("List", 0, <<>>)}
       \cup {Value("List", 1, <<h, t>>) :
               h \in ValuesOf(ty.elem, depth - 1), t \in ValuesOf(ty, depth - 1)}
  ELSE {Value(MultiArg, 0, vs) :
          vs \in {f \in [1..Len(ty.of) -> UNION {ValuesOf(ty.of[i], depth) :
                                                   i \in 1..Len(ty.of)}] :
                    \A i \in 1..Len(ty.of) : f[i] \in ValuesOf(ty.of[i], depth)}}

\* the patterns of the model look two constructors deep
InputShapes(ty) == ValuesOf(ty, 1 + 1)

\* the pattern is a pattern for values of the type
RECURSIVE WellTyped(_, _)
WellTyped(t, ty) ==
  IF t.sum = NoSum THEN TRUE
  ELSE IF ty.k = "Boolean" THEN t.sum = "Boolean"
  ELSE IF ty.k = "List"
  THEN /\ t.sum = "List"
       /\ t.cons = 1 => /\ WellTyped(t.children[1], ty.elem)
                        /\ WellTyped(t.children[2], ty)
  ELSE IF ty.k = "Args"
  THEN /\ t.sum = MultiArg
       /\ Len(t.children) = Len(ty.of)
       /\ \A i \in 1..Len(ty.of) : WellTyped(t.children[i], ty.of[i])
  ELSE FALSE

\* the pattern matches the value
RECURSIVE Matches(_, _)
Matches(t, v) ==
  \/ t.sum = NoSum
  \/ /\ t.sum = v.sum
     /\ t.cons = v.cons
     /\ \A i \in DOMAIN t.children :
          i \in DOMAIN v.children /\ Matches(t.children[i], v.children[i])

\* the arms of the match as cons_lookup reads them, in source order
NumArms == Len(pm_match.arms)
ArmTree(i) == cons_lookup(pm_match.binding, pm_match.arms[i].pattern, pm_match.nargs).tree
ArmGuard(i) == pm_match.arms[i].guard

\* the types under which every arm of the match is a pattern of the scrutinee
TypesOfMatch == {ty \in MatchTypes : \A i \in 1..NumArms : WellTyped(ArmTree(i), ty)}

\* arm i matches v and no earlier arm without a guard does
Selects(i, v) ==
  /\ Matches(ArmTree(i), v)
  /\ \A j \in 1..(i - 1) : ArmGuard(j) \/ ~Matches(ArmTree(j), v)

PMAccepted == pm_pc = "done" /\ pm_out # NullExpr

HasDiag(kind) == \E k \in DOMAIN pm_diag : pm_diag[k].kind = kind

\* C4: for every match rebind_match accepts, under every typing of the
\* scrutinee that fits the arms, every input shape (every combination of
\* constructors, to the depth the arms inspect) is matched by at least one arm,
\* indeed by an arm without a guard; and an accepted match has printed no
\* "Non-exhaustive match" diagnostic.
C4_Exhaustive ==
  PMAccepted =>
    /\ ~HasDiag("NonExhaustive")
    /\ \A ty \in TypesOfMatch : \A v \in InputShapes(ty) :
         \E i \in 1..NumArms : ~ArmGuard(i) /\ Matches(ArmTree(i), v)

\* an accepted match on a list with three arms, one of them guarded, whose arms
\* look at the head of the list
C4_Witness ==
  /\ PMAccepted
  /\ NumArms = 3
  /\ \E i \in 1..NumArms : ArmGuard(i)
  /\ TList(TBoolean) \in TypesOfMatch
  /\ \E i \in 1..NumArms :
       /\ ArmTree(i).sum = "List" /\ ArmTree(i).cons = 1
       /\ ArmTree(i).children[1].sum = "Boolean"

\* expand_patterns has returned a tree
PMExpanded ==
  /\ pm_pc \in {"uses", "done"}
  /\ pm_ok
  /\ ~HasDiag("NonExhaustive")
  /\ ~HasDiag("NotAMember")

\* C5: once expand_patterns has returned a tree, under every typing that fits
\* the arms an arm has a use count of zero exactly when no input shape selects
\* it (it is the first arm to match for none); rebind_match reports "Pattern
\* unreachable" and returns null exactly when some arm has a use count of zero,
\* so in every accepted match each arm is selected by some input shape.
C5_Reachability ==
  /\ PMExpanded =>
       \A ty \in TypesOfMatch : \A i \in 1..NumArms :
         (pm_patterns[i + 1].uses = 0) <=> ~\E v \in InputShapes(ty) : Selects(i, v)
  /\ (PMExpanded /\ pm_pc = "done") =>
       /\ HasDiag("Unreachable") <=> \E i \in 1..NumArms : pm_patterns[i + 1].uses = 0
       /\ HasDiag("Unreachable") => pm_out = NullExpr
  /\ PMAccepted =>
       \A ty \in TypesOfMatch : \A i \in 1..NumArms :
         \E v \in InputShapes(ty) : Selects(i, v)

\* a well-typed match rejected because the shapes of its last arm are all
\* taken by earlier arms, although the arm is no copy of an earlier one
C5_Witness ==
  /\ PMExpanded /\ pm_pc = "done"
  /\ HasDiag("Unreachable")
  /\ TypesOfMatch # {}
  /\ NumArms = 3
  /\ pm_patterns[4].uses = 0
  /\ pm_patterns[2].uses > 0 /\ pm_patterns[3].uses > 0
  /\ \A i \in 1..NumArms : ArmTree(i).sum # NoSum
  /\ ArmTree(3) # ArmTree(1) /\ ArmTree(3) # ArmTree(2)

\* ------------------------------------------------------------------------
\* Scopes: ResolveBinding, reference_map, rebind_ref, rebind_subscribe
\* ------------------------------------------------------------------------

VarRef(name) == [type |-> "VarRef", name |-> name]
App(fn, val) == [type |-> "App", fn |-> fn, val |-> val]
Literal(value) == [type |-> "Literal", value |-> value]

\* a Match, with what rebind_match (modelled above on its own) returns for it:
\* null, or the expression it compiled the match to
Match(compiled) == [type |-> "Match", compiled |-> compiled]

\* what fracture_binding asks of a definition: null, a Lambda, or something else
KindOf(expr) ==
  IF expr = NullExpr THEN "Null"
  ELSE IF expr.type = "Lambda" THEN "Lambda"
  ELSE "Value"

\* ResolveDef(name, location, expr): no edges yet
ResolveDef(name, expr) ==
  [name |-> name, expr |-> expr, kind |-> KindOf(expr), edges |-> {}]

\* defs.emplace_back(...): the vector is indexed from 0
EmplaceBack(defs, def) == (Cardinality(DOMAIN defs) :> def) @@ defs

\* index[name] = value
IndexPut(index, name, value) == (name :> value) @@ index

\* bool reference_map(ResolveBinding *binding, const std::string &name)
reference_map(binding, name) ==
  IF name \in DOMAIN binding.index
  THEN [found |-> TRUE,
        binding |-> IF binding.current_index # -1
                    THEN [binding EXCEPT !.defs[binding.current_index].edges =
                                           @ \cup {binding.index[name]}]
                    ELSE binding]
  ELSE [found |-> FALSE, binding |-> binding]

\* std::to_string(iter->prefix) + " " + name
FileLocal(prefix, name) == ToString(prefix) \o " " \o name

\* one iteration of the loop of rebind_ref: the file-local key of a scope that
\* has a prefix, then the bare name
ScopeLookupAlwaysLocal(iter, name) ==
  LET local == reference_map(iter, FileLocal(iter.prefix, name))
      bare == reference_map(iter, name)
  IN IF iter.prefix >= 0 /\ local.found
     THEN [found |-> TRUE, name |-> FileLocal(iter.prefix, name),
           binding |-> local.binding]
     ELSE IF bare.found
     THEN [found |-> TRUE,
           name |-> IF iter.prefix >= 0 THEN FileLocal(iter.prefix, name) ELSE name,
           binding |-> bare.binding]
     ELSE [found |-> FALSE, name |-> name, binding |-> iter]
ScopeLookupBareFirst(iter, name) ==
  LET bare == reference_map(iter, name)
      local == reference_map(iter, FileLocal(iter.prefix, name))
  IN IF bare.found THEN [found |-> TRUE, name |-> name, binding |-> bare.binding]
     ELSE IF iter.prefix >= 0 /\ local.found
     THEN [found |-> TRUE, name |-> FileLocal(iter.prefix, name),
           binding |-> local.binding]
     ELSE [found |-> FALSE, name |-> name, binding |-> iter]
ScopeLookup(iter, name) ==
  LET local == reference_map(iter, FileLocal(iter.prefix, name))
      bare == reference_map(iter, name)
  IN IF iter.prefix >= 0 /\ local.found
     THEN [found |-> TRUE, name |-> FileLocal(iter.prefix, name),
           binding |-> local.binding]
     ELSE IF bare.found THEN [found |-> TRUE, name |-> name, binding |-> bare.binding]
     ELSE [found |-> FALSE, name |-> name, binding |-> iter]

\* bool rebind_ref(ResolveBinding *binding, std::string &name): k is the scope
\* the loop is at, 1 the innermost; scope 0 in the result means not found
RECURSIVE rebind_ref(_, _, _)
rebind_ref(chain, name, k) ==
  IF k > Len(chain) THEN [found |-> FALSE, name |-> name, chain |-> chain, scope |-> 0]
  ELSE LET r == ScopeLookup(chain[k], name)
       IN IF r.found
          THEN [found |-> TRUE, name |-> r.name,
                chain |-> [chain EXCEPT ![k] = r.binding], scope |-> k]
          ELSE rebind_ref(chain, name, k + 1)

\* "publish " + std::to_string(depth) + " " + name
PublishName(depth, name) == "publish " \o ToString(depth) \o " " \o name

\* "publish " + std::to_string(depth) + " " + std::to_string(++chain) + " " + name
ChainName(depth, ctr, name) ==
  "publish " \o ToString(depth) \o " " \o ToString(ctr) \o " " \o name

\* VarRef *rebind_subscribe(binding, location, name)
RECURSIVE rebind_subscribe(_, _, _)
rebind_subscribe(chain, name, k) ==
  IF k > Len(chain) THEN [expr |-> VarRef("Nil"), chain |-> chain]
  ELSE LET pub == PublishName(chain[k].depth, name)
           r == reference_map(chain[k], pub)
       IN IF r.found
          THEN [expr |-> VarRef(pub), chain |-> [chain EXCEPT ![k] = r.binding]]
          ELSE rebind_subscribe(chain, name, k + 1)

\* ------------------------------------------------------------------------
\* chain_publish
\* ------------------------------------------------------------------------

\* the body of the inner loop: one contribution j of the entry for name
PublishOne(chain, ctr, name, body) ==
  LET binding == chain[1]
      pubname == PublishName(binding.depth, name)
      size == Cardinality(DOMAIN binding.defs)
  IN IF pubname \notin DOMAIN binding.index
     THEN LET sub == rebind_subscribe(chain, name, 1)
              b1 == sub.chain[1]
          IN [chain |-> [sub.chain EXCEPT ![1] =
                           [b1 EXCEPT !.index = IndexPut(b1.index, pubname, size),
                                      !.defs = EmplaceBack(b1.defs,
                                                 ResolveDef(pubname,
                                                   App(App(VarRef("binary ++"), body),
                                                       sub.expr)))]],
              ctr |-> ctr]
     ELSE LET pub == binding.index[pubname]
              inner == ChainName(binding.depth, ctr + 1, name)
              renamed == [binding EXCEPT !.index = IndexPut(binding.index, inner, pub),
                                         !.defs[pub].name = inner]
          IN [chain |-> [chain EXCEPT ![1] =
                           [renamed EXCEPT
                              !.index = IndexPut(renamed.index, pubname, size),
                              !.defs = EmplaceBack(renamed.defs,
                                         ResolveDef(pubname,
                                           App(App(VarRef("binary ++"), body),
                                               VarRef(inner))))]],
              ctr |-> ctr + 1]

Reverse(s) == [k \in 1..Len(s) |-> s[Len(s) + 1 - k]]

\* for (auto j = i.second.rbegin(); j != i.second.rend(); ++j)
ContribOrderForward(contribs) == contribs
ContribOrder(contribs) == Reverse(contribs)

\* the inner loop over the contributions of one entry, from position j on
RECURSIVE PublishEntry(_, _, _, _)
PublishEntry(st, name, ordered, j) ==
  IF j > Len(ordered) THEN st
  ELSE LET r == PublishOne(st.chain, st.ctr, name, ordered[j])
       IN PublishEntry(r, name, ordered, j + 1)

\* void chain_publish(ResolveBinding *binding, DefMap::Pubs &pubs, int &chain):
\* pubs is the publish map in key order
RECURSIVE chain_publish(_, _, _)
chain_publish(st, pubs, i) ==
  IF i > Len(pubs) THEN st
  ELSE chain_publish(PublishEntry(st, pubs[i].name, ContribOrder(pubs[i].contribs), 1),
                     pubs, i + 1)

\* ------------------------------------------------------------------------
\* fracture_binding as a function of the definitions and the body
\* ------------------------------------------------------------------------

\* while (!q.empty()) { ... }
RECURSIVE RelaxLoop(_, _)
RelaxLoop(defs, st) ==
  IF st.q = <<>> THEN [d |-> st.d, cycle |-> NoCycle]
  ELSE LET rv == Head(st.q)
           drv == st.d[rv.v]
           n == Cardinality(DOMAIN defs)
       IN IF rv.d < drv THEN RelaxLoop(defs, [st EXCEPT !.q = Tail(st.q)])
          ELSE IF LevelTooHigh(drv, n)
          THEN [d |-> [i \in DOMAIN defs |-> 0], cycle |-> CycleReport(st.p, rv.v, n)]
          ELSE RelaxLoop(defs,
                 RelaxEdges([st EXCEPT !.q = Tail(st.q)], SortedSeq(defs[rv.v].edges),
                            rv.v, drv, EdgeWeight(defs[rv.v])))

\* bind->val and bind->fun hold the expressions of the definitions
WithExprs(defs, binding) ==
  [binding EXCEPT !.val = [k \in DOMAIN binding.val |-> defs[binding.val[k]].expr],
                  !.fun = [k \in DOMAIN binding.fun |-> defs[binding.fun[k]].expr]]

\* for (i = 0; i < N; ++i) { if (levels[i].empty()) continue; ... out = bind; }
RECURSIVE EmitLoop(_, _, _, _, _)
EmitLoop(defs, d, tj, i, out) ==
  IF i >= Cardinality(DOMAIN defs) THEN out
  ELSE IF LevelList(d, i) = <<>> THEN EmitLoop(defs, d, tj, i + 1, out)
  ELSE LET st == EmitLevel(defs, d, tj, i, out)
       IN EmitLoop(defs, d, st.tj, i + 1, WithExprs(defs, st.binding))

\* std::unique_ptr<Expr> fracture_binding(location, defs, body)
fracture_binding(defs, body) ==
  LET ids == DOMAIN defs
      n == Cardinality(ids)
  IN IF \E i \in ids : defs[i].expr = NullExpr
     THEN [expr |-> NullExpr, cycle |-> NoCycle]
     ELSE LET r == RelaxLoop(defs, [d |-> [i \in ids |-> 0], p |-> [i \in ids |-> -1],
                                    q |-> [k \in 1..n |-> [v |-> k - 1, d |-> 0]]])
          IN IF r.cycle.detected
             THEN [expr |-> NullExpr, cycle |-> r.cycle]
             ELSE [expr |-> EmitLoop(defs, r.d,
                              [i \in ids |-> [index |-> Uninit, lowlink |-> Uninit,
                                              onstack |-> Uninit]],
                              0, body),
                   cycle |-> NoCycle]

\* ------------------------------------------------------------------------
\* fracture
\* ------------------------------------------------------------------------

Subscribe(name) == [type |-> "Subscribe", name |-> name]

\* DefMap: map and pub in key order, each entry of map a name and a body, each
\* entry of pub a name and its contributions; ast: FLAG_AST is set
DefMap(map, pub, body, ast) ==
  [type |-> "DefMap", map |-> map, pub |-> pub, body |-> body, ast |-> ast]

\* Top: one DefMap for every file, globals: name -> the file that owns it
Top(defmaps, globals, body) ==
  [type |-> "Top", defmaps |-> defmaps, globals |-> globals, body |-> body]

\* i.expr = ...: the kind follows the expression
SetExpr(def, expr) == [def EXCEPT !.expr = expr, !.kind = KindOf(expr)]

\* what a reference sees of the scopes and what it may change in them
ScopeView(chain) ==
  [k \in 1..Len(chain) |->
     [prefix |-> chain[k].prefix, depth |-> chain[k].depth,
      keys |-> DOMAIN chain[k].index,
      edges |-> [i \in DOMAIN chain[k].defs |-> chain[k].defs[i].edges]]]

\* dbinding.index[i.first] = dbinding.defs.size(); dbinding.defs.emplace_back(...)
RECURSIVE AddDefs(_, _, _)
AddDefs(binding, map, i) ==
  IF i > Len(map) THEN binding
  ELSE AddDefs([binding EXCEPT
                  !.index = IndexPut(binding.index, map[i].name,
                                     Cardinality(DOMAIN binding.defs)),
                  !.defs = EmplaceBack(binding.defs,
                                       ResolveDef(map[i].name, map[i].body))],
               map, i + 1)

\* the name a top-level definition goes by: the global name in the file that
\* owns the global, the file-local name otherwise
TopDefName(globals, prefix, name) ==
  IF name \in DOMAIN globals /\ globals[name] = prefix THEN name
  ELSE FileLocal(prefix, name)

TopEntries(globals, prefix, map) ==
  [i \in 1..Len(map) |->
     [name |-> TopDefName(globals, prefix, map[i].name), body |-> map[i].body]]

\* for (auto &j : b->pub) total += j.second.size();
RECURSIVE PubTotal(_)
PubTotal(pub) ==
  IF pub = <<>> THEN 0 ELSE Len(Head(pub).contribs) + PubTotal(Tail(pub))

\* ResolveBinding dbinding: parent = binding, prefix = -1, depth one more
DefMapBinding(chain) ==
  [current_index |-> Uninit, prefix |-> -1, depth |-> chain[1].depth + 1,
   index |-> <<>>, defs |-> <<>>]

\* ResolveBinding tbinding: prefix = 0, depth = binding ? binding->depth+1 : 0
TopBinding(chain) ==
  [current_index |-> Uninit, prefix |-> 0,
   depth |-> IF chain = <<>> THEN 0 ELSE chain[1].depth + 1,
   index |-> <<>>, defs |-> <<>>]

RECURSIVE fracture(_, _)
RECURSIVE FractureDefs(_, _)
RECURSIVE TopFiles(_, _, _, _)
RECURSIVE TopDefs(_, _, _)

\* i.expr = fracture(std::move(i.expr), &binding); ++binding.current_index;
\* for the definitions from current_index up to (not including) last
FractureDefs(st, last) ==
  LET binding == st.chain[1]
      i == binding.current_index
  IN IF i >= last THEN st
     ELSE LET moved == [st EXCEPT !.chain[1].defs[i] = SetExpr(@, NullExpr)]
              r == fracture(binding.defs[i].expr, moved)
          IN FractureDefs([r.st EXCEPT !.chain[1].defs[i] = SetExpr(@, r.expr),
                                       !.chain[1].current_index = i + 1],
                          last)

\* for (auto &b : top->defmaps) { definitions; chain_publish; ++tbinding.prefix; }
TopFiles(st, ctr, top, f) ==
  IF f > Len(top.defmaps) THEN st
  ELSE LET b == top.defmaps[f]
           tb == AddDefs(st.chain[1],
                         TopEntries(top.globals, st.chain[1].prefix, b.map), 1)
           p == chain_publish([chain |-> [st.chain EXCEPT ![1] = tb], ctr |-> ctr],
                              b.pub, 1)
       IN TopFiles([st EXCEPT !.chain = [p.chain EXCEPT ![1].prefix = @ + 1]],
                   p.ctr, top, f + 1)

\* for (auto &b : top->defmaps) { total definitions fractured; ++tbinding.prefix; }
TopDefs(st, top, f) ==
  IF f > Len(top.defmaps) THEN st
  ELSE LET b == top.defmaps[f]
           total == Len(b.map) + PubTotal(b.pub)
           r == FractureDefs(st, st.chain[1].current_index + total)
       IN TopDefs([r EXCEPT !.chain[1].prefix = @ + 1], top, f + 1)

\* std::unique_ptr<Expr> fracture(std::unique_ptr<Expr> expr, ResolveBinding *binding)
\* st: the scope chain (innermost first), the references resolved so far, what
\* was printed, and whether a null pointer was dereferenced (a null expression,
\* or binding->depth of a Lambda or DefMap with no binding at all).  A Match is
\* compiled by rebind_match, modelled above on its own, and carries the result.
fracture(expr, st) ==
  IF expr = NullExpr
  THEN [expr |-> NullExpr, st |-> [st EXCEPT !.crash = TRUE]]
  ELSE IF expr.type = "VarRef"
  THEN LET r == rebind_ref(st.chain, expr.name, 1)
       IN [expr |-> VarRef(r.name),
           st |-> [st EXCEPT !.chain = r.chain,
                             !.log = Append(@, [name |-> expr.name, found |-> r.found,
                                                rebound |-> r.name, scope |-> r.scope,
                                                before |-> ScopeView(st.chain),
                                                after |-> ScopeView(r.chain),
                                                chain |-> r.chain])]]
  ELSE IF expr.type = "Subscribe"
  THEN LET r == rebind_subscribe(st.chain, expr.name, 1)
       IN [expr |-> r.expr, st |-> [st EXCEPT !.chain = r.chain]]
  ELSE IF expr.type = "App"
  THEN LET f == fracture(expr.fn, st)
           a == fracture(expr.val, f.st)
       IN [expr |-> App(f.expr, a.expr), st |-> a.st]
  ELSE IF expr.type = "Match"
  THEN IF expr.compiled = NullExpr THEN [expr |-> NullExpr, st |-> st]
       ELSE fracture(expr.compiled, st)
  ELSE IF expr.type \in {"Lambda", "DefMap"} /\ st.chain = <<>>
  THEN [expr |-> expr, st |-> [st EXCEPT !.crash = TRUE]]
  ELSE IF expr.type = "Lambda"
  THEN LET lbinding == [current_index |-> 0, prefix |-> -1,
                        depth |-> st.chain[1].depth + 1,
                        index |-> (expr.name :> 0),
                        defs |-> (0 :> ResolveDef(expr.name, NullExpr))]
           r == fracture(expr.body, [st EXCEPT !.chain = <<lbinding>> \o st.chain])
       IN [expr |-> Lambda(expr.name, r.expr),
           st |-> [r.st EXCEPT !.chain = Tail(r.st.chain)]]
  ELSE IF expr.type = "DefMap"
  THEN LET dbinding == AddDefs(DefMapBinding(st.chain), expr.map, 1)
           p == chain_publish([chain |-> <<dbinding>> \o st.chain, ctr |-> 0],
                              expr.pub, 1)
           s1 == [st EXCEPT !.chain = [p.chain EXCEPT ![1].current_index = 0]]
           s2 == FractureDefs(s1, Cardinality(DOMAIN s1.chain[1].defs))
           body == fracture(expr.body, [s2 EXCEPT !.chain[1].current_index = -1])
           out == fracture_binding(body.st.chain[1].defs, body.expr)
       IN [expr |-> out.expr,
           st |-> [body.st EXCEPT
                     !.chain = Tail(body.st.chain),
                     !.diag = IF out.cycle.detected THEN Append(@, out.cycle) ELSE @,
                     !.crash = @ \/ (expr.ast /\ out.expr = NullExpr)]]
  ELSE IF expr.type = "Top"
  THEN LET tbinding == TopBinding(st.chain)
           s1 == TopFiles([st EXCEPT !.chain = <<tbinding>> \o st.chain], 0, expr, 1)
           s2 == TopDefs([s1 EXCEPT !.chain[1].current_index = 0,
                                    !.chain[1].prefix = 0], expr, 1)
           body == fracture(expr.body, [s2 EXCEPT !.chain[1].current_index = -1])
           out == fracture_binding(body.st.chain[1].defs, body.expr)
       IN [expr |-> out.expr,
           st |-> [body.st EXCEPT
                     !.chain = Tail(body.st.chain),
                     !.diag = IF out.cycle.detected THEN Append(@, out.cycle) ELSE @]]
  ELSE [expr |-> expr, st |-> st]

\* ------------------------------------------------------------------------
\* explore: the references of the fractured tree
\* ------------------------------------------------------------------------

\* the TypeVar of the node at a path of the tree (the root is <<>>; fn and val
\* of an App are children 1 and 2, the body of a Lambda is child 1, val[i] and
\* fun[j] of a DefBinding are children i+1 and val.size()+j+1 counted from 0,
\* its body is child 0), typeVar[i] of it, a fresh TypeVar(FN, 2), the result of
\* clone, and the type of a literal
TV(path) == [k |-> "node", path |-> path]
Sub(var, i) == [k |-> "sub", of |-> var, i |-> i]
FN2 == [k |-> "FN2"]
Clone(var) == [k |-> "clone", of |-> var]
LitType == [k |-> "litType"]
NullVar == [k |-> "null"]

\* NameBinding(next, lambda), NameBinding(next, binding) and the bottom
LambdaFrame(name, path) == [kind |-> "lambda", name |-> name, path |-> path]
BindingFrame(def, path, generalized) ==
  [kind |-> "binding", def |-> def, path |-> path, generalized |-> generalized]
Bottom == [kind |-> "bottom"]

\* binding->val[idx] or binding->fun[idx - val.size()]
Member(def, idx) ==
  IF idx < Len(def.val) THEN def.val[idx + 1] ELSE def.fun[idx - Len(def.val) + 1]

\* out.def = idx < generalized
IsGeneralizedAlways(idx, generalized) == TRUE
IsGeneralized(idx, generalized) == idx < generalized

\* NameRef NameBinding::find(const std::string &x): nb holds the NameBindings,
\* innermost first; the last one is the bottom, with neither lambda nor binding
RECURSIVE find(_, _)
find(nb, x) ==
  LET frame == Head(nb)
  IN IF frame.kind = "lambda" /\ frame.name = x
     THEN [depth |-> 0, offset |-> 0, def |-> FALSE,
           var |-> Sub(TV(frame.path), 0), at |-> frame.path]
     ELSE IF frame.kind = "binding" /\ x \in DOMAIN frame.def.order
     THEN LET idx == frame.def.order[x]
          IN [depth |-> 0, offset |-> idx,
              def |-> IsGeneralized(idx, frame.generalized),
              var |-> IF Member(frame.def, idx) = NullExpr THEN NullVar
                      ELSE TV(frame.path \o <<idx + 1>>),
              at |-> frame.path]
     ELSE IF Tail(nb) # <<>>
     THEN [find(Tail(nb), x) EXCEPT !.depth = @ + 1]
     ELSE [depth |-> 0, offset |-> -1, def |-> FALSE, var |-> NullVar, at |-> <<>>]

\* if ((pos = binding->find(ref->name)).offset == -1)
IsUnboundNever(pos) == FALSE
IsUnbound(pos) == pos.offset = -1

\* what explore has done so far: the names it reported as unbound, the
\* references it bound, the unifications it asked for, the values it gave to
\* generalized, what it returned for every node, and which of the unifications
\* fail (TypeVar::unify is not decided here: the n-th call fails iff n is in fail)
ExploreState(fail) ==
  [unbound |-> <<>>, refs |-> <<>>, calls |-> <<>>, marks |-> <<>>, ret |-> <<>>,
   fail |-> fail]

\* a.unify(b): the outcome and the call, logged
unify(st, a, b, node, why) ==
  LET ok == (Len(st.calls) + 1) \notin st.fail
  IN [ok |-> ok,
      st |-> [st EXCEPT !.calls = Append(@, [a |-> a, b |-> b, node |-> node,
                                              why |-> why, ok |-> ok])]]

\* return ...: the value returned for the node, logged
Return(path, type, ok, st) ==
  [ok |-> ok, st |-> [st EXCEPT !.ret = Append(@, [node |-> path, type |-> type,
                                                    ok |-> ok])]]

\* return f && a && t && ta && tr;
AppResultWithoutArg(f, a, t, ta, tr) == f /\ a /\ t /\ tr
AppResult(f, a, t, ta, tr) == f /\ a /\ t /\ ta /\ tr

\* bool a = explore(app->val.get(), pmap, binding): whatever f was
AppArgUnlessFailed(f, a) == IF f.ok THEN a ELSE [ok |-> FALSE, st |-> f.st]
AppArg(f, a) == a

\* static bool explore(Expr *expr, const PrimMap &pmap, NameBinding *binding)
\* The trees of this model hold no Construct, Destruct or Prim.
RECURSIVE explore(_, _, _, _)
RECURSIVE exploreVals(_, _, _, _, _, _)
RECURSIVE exploreFuns(_, _, _, _, _, _)
explore(expr, path, nb, st) ==
  IF expr = NullExpr
  THEN Return(path, "Null", FALSE, [st EXCEPT !.unbound = Append(@, "")])
  ELSE IF expr.type = "VarRef"
  THEN LET pos == find(nb, expr.name)
           ref == [node |-> path, name |-> expr.name, depth |-> pos.depth,
                   offset |-> pos.offset, def |-> pos.def, at |-> pos.at]
           bound == [st EXCEPT !.refs = Append(@, ref)]
           u == unify(bound, TV(path),
                      IF pos.def THEN Clone(pos.var) ELSE pos.var, path, "ref")
       IN IF IsUnbound(pos)
          THEN Return(path, "VarRef", FALSE,
                      [st EXCEPT !.unbound = Append(@, expr.name)])
          ELSE IF pos.var = NullVar THEN Return(path, "VarRef", TRUE, bound)
          ELSE Return(path, "VarRef", u.ok, u.st)
  ELSE IF expr.type = "App"
  THEN LET fn == path \o <<1>>
           val == path \o <<2>>
           f == explore(expr.fn, fn, nb, st)
           a == AppArg(f, explore(expr.val, val, nb, f.st))
           ut == unify(a.st, TV(fn), FN2, path, "fn")
           t == f.ok /\ ut.ok
           s1 == IF f.ok THEN ut.st ELSE a.st
           uta == unify(s1, Sub(TV(fn), 0), TV(val), path, "arg")
           ta == t /\ a.ok /\ uta.ok
           s2 == IF t /\ a.ok THEN uta.st ELSE s1
           utr == unify(s2, Sub(TV(fn), 1), TV(path), path, "result")
           tr == t /\ utr.ok
           s3 == IF t THEN utr.st ELSE s2
       IN Return(path, "App", AppResult(f.ok, a.ok, t, ta, tr), s3)
  ELSE IF expr.type = "Lambda"
  THEN LET ut == unify(st, TV(path), FN2, path, "lambda")
           out == explore(expr.body, path \o <<1>>,
                          <<LambdaFrame(expr.name, path)>> \o nb, ut.st)
           utr == unify(out.st, Sub(TV(path), 1), TV(path \o <<1>>), path, "body")
           tr == ut.ok /\ out.ok /\ utr.ok
           s1 == IF ut.ok /\ out.ok THEN utr.st ELSE out.st
       IN Return(path, "Lambda", out.ok /\ ut.ok /\ tr, s1)
  ELSE IF expr.type = "DefBinding"
  THEN LET vals == exploreVals(expr, path, nb, st, 1, TRUE)
           funs == exploreFuns(expr, path, nb, vals.st, 1, vals.ok)
           all == Len(expr.val) + Len(expr.fun)
           marked == [funs.st EXCEPT !.marks = Append(@, [binding |-> path,
                                                          generalized |-> all])]
           body == explore(expr.body, path \o <<0>>,
                           <<BindingFrame(expr, path, all)>> \o nb, marked)
           ok == body.ok /\ funs.ok
           u == unify(body.st, TV(path), TV(path \o <<0>>), path, "def")
       IN IF ok THEN Return(path, "DefBinding", u.ok, u.st)
          ELSE Return(path, "DefBinding", FALSE, body.st)
  ELSE IF expr.type = "Literal"
  THEN LET u == unify(st, TV(path), LitType, path, "literal")
       IN Return(path, "Literal", u.ok, u.st)
  ELSE Return(path, expr.type, TRUE, st)

\* for (auto &i : def->val) ok = explore(i.get(), pmap, binding) && ok;
exploreVals(def, path, nb, st, i, ok) ==
  IF i > Len(def.val) THEN [ok |-> ok, st |-> st]
  ELSE LET r == explore(def.val[i], path \o <<i>>, nb, st)
       IN exploreVals(def, path, nb, r.st, i + 1, r.ok /\ ok)

\* for (i ...) { bind.generalized = def->val.size() + def->scc[i];
\*               ok = explore(def->fun[i].get(), pmap, &bind) && ok; }
exploreFuns(def, path, nb, st, i, ok) ==
  IF i > Len(def.fun) THEN [ok |-> ok, st |-> st]
  ELSE LET generalized == Len(def.val) + def.scc[i]
           marked == [st EXCEPT !.marks = Append(@, [binding |-> path,
                                                     generalized |-> generalized])]
           r == explore(def.fun[i], path \o <<Len(def.val) + i>>,
                        <<BindingFrame(def, path, generalized)>> \o nb, marked)
       IN exploreFuns(def, path, nb, r.st, i + 1, r.ok /\ ok)

\* ------------------------------------------------------------------------
\* bind_refs as a state machine
\* ------------------------------------------------------------------------

\* largest number of files of a Top
MaxFiles == 2

RefLeaves == {VarRef("x"), VarRef("y"), VarRef("z")}

\* def x = 1 followed by the body
InnerDef(body, ast) == DefMap(<<[name |-> "x", body |-> Literal(1)]>>, <<>>, body, ast)

\* the bodies of the top-level definitions of the model
RefBodies ==
  RefLeaves \cup {Literal(0)}
  \cup {Lambda("x", r) : r \in {VarRef("x"), VarRef("y")}}
  \cup {Lambda("w", VarRef("x"))}
  \cup {InnerDef(r, FALSE) : r \in {VarRef("x"), VarRef("y")}}
  \cup {Lambda("x", InnerDef(VarRef("x"), FALSE))}

\* the definition maps of a file: the first file may define x and y, the
\* others x; NullExpr stands for no definition
RefMap(bx, by) ==
  (IF bx = NullExpr THEN <<>> ELSE <<[name |-> "x", body |-> bx]>>)
  \o (IF by = NullExpr THEN <<>> ELSE <<[name |-> "y", body |-> by]>>)

RefGlobals(ox, oy) ==
  [n \in (IF ox = -1 THEN {} ELSE {"x"}) \cup (IF oy = -1 THEN {} ELSE {"y"}) |->
     IF n = "x" THEN ox ELSE oy]

RefInit ==
  \E nfiles \in 1..MaxFiles :
    \E bx \in [1..nfiles -> RefBodies \cup {NullExpr}] :
      \E by \in RefBodies \cup {NullExpr} :
        \E ox \in {-1} \cup {f \in 0..(nfiles - 1) : bx[f + 1] # NullExpr} :
          \E oy \in {-1} \cup (IF by = NullExpr THEN {} ELSE {0}) :
            \E body \in RefLeaves :
              /\ ref_top = Top([f \in 1..nfiles |->
                                  DefMap(RefMap(bx[f], IF f = 1 THEN by ELSE NullExpr),
                                         <<>>, NullExpr, FALSE)],
                               RefGlobals(ox, oy), body)
              /\ ref_out = NullExpr
              /\ ref_st = <<>>
              /\ ref_unbound = <<>>
              /\ ref_pc = "start"

\* std::unique_ptr<Expr> out = fracture(std::move(top), 0);
RefFracture ==
  /\ ref_pc = "start"
  /\ LET r == fracture(ref_top, [chain |-> <<>>, log |-> <<>>, diag |-> <<>>,
                                 crash |-> FALSE])
     IN /\ ref_st' = r.st
        /\ IF r.st.crash
           THEN /\ ref_pc' = "crashed"
                /\ UNCHANGED ref_out
           ELSE /\ ref_pc' = "fractured"
                /\ ref_out' = r.expr
  /\ UNCHANGED <<ref_top, ref_unbound>>
  /\ UNCHANGED notRef

\* if (out && !explore(out.get(), pmap, &bottom)) out.reset(); return out;
\* whether the types unify is not decided by this file: typed is that outcome
RefExplore ==
  /\ ref_pc = "fractured"
  /\ IF ref_out = NullExpr
     THEN UNCHANGED <<ref_out, ref_unbound>>
     ELSE \E typed \in BOOLEAN :
            LET r == explore(ref_out, <<>>, <<Bottom>>,
                             ExploreState(IF typed THEN {} ELSE {1}))
            IN /\ ref_unbound' = r.st.unbound
               /\ ref_out' = IF r.ok THEN ref_out ELSE NullExpr
  /\ ref_pc' = "done"
  /\ UNCHANGED <<ref_top, ref_st>>
  /\ UNCHANGED notRef

InitRef == RefInit /\ FBIdle /\ PMIdle /\ PubIdle /\ LexIdle /\ TyIdle /\ MainIdle /\ StrIdle /\ ConsIdle /\ HashIdle

NextRef == RefFracture \/ RefExplore

SpecRef == InitRef /\ [][NextRef]_vars

\* ------------------------------------------------------------------------
\* Properties of reference resolution
\* ------------------------------------------------------------------------

\* the scope defines the name, under its file-local key or under the bare name
HasLocal(view, name) == view.prefix >= 0 /\ FileLocal(view.prefix, name) \in view.keys
Defines(view, name) == HasLocal(view, name) \/ name \in view.keys

\* the references fracture went through
RefLog == ref_st.log
RefEntries == {RefLog[i] : i \in DOMAIN RefLog}
Fractured == ref_pc \in {"fractured", "done"}

\* no scope on the chain of the reference defines its name
NowhereDefined(e) == \A k \in DOMAIN e.before : ~Defines(e.before[k], e.name)

\* the names of the VarRefs of a tree
RECURSIVE NamesIn(_)
NamesIn(expr) ==
  IF expr.type = "VarRef" THEN {expr.name}
  ELSE IF expr.type = "App" THEN NamesIn(expr.fn) \cup NamesIn(expr.val)
  ELSE IF expr.type = "Lambda" THEN NamesIn(expr.body)
  ELSE IF expr.type = "DefBinding"
  THEN UNION {NamesIn(expr.val[i]) : i \in DOMAIN expr.val}
       \cup UNION {NamesIn(expr.fun[i]) : i \in DOMAIN expr.fun}
       \cup NamesIn(expr.body)
  ELSE {}

SeqSet(s) == {s[i] : i \in DOMAIN s}

\* C9: a VarRef whose name no scope on the chain defines keeps its name and adds
\* no edge to any scope, and fracture does not fail over it: fracture returns
\* null only when it printed a value cycle, and otherwise the name sits unchanged
\* in the tree it returns.  explore then reports exactly the names fracture left
\* unresolved as unbound, and bind_refs returns null when there is one.
C9_UnboundLeftForExplore ==
  /\ ref_pc # "crashed"
  /\ Fractured =>
       \A e \in RefEntries :
         NowhereDefined(e) =>
           /\ ~e.found
           /\ e.rebound = e.name
           /\ e.after = e.before
           /\ ref_st.diag = <<>> => (ref_pc = "fractured" => e.name \in NamesIn(ref_out))
  /\ ref_pc = "fractured" => (ref_out = NullExpr <=> ref_st.diag # <<>>)
  /\ (ref_pc = "done" /\ ref_st.diag = <<>>) =>
       /\ SeqSet(ref_unbound) = {e.name : e \in {x \in RefEntries : ~x.found}}
       /\ ref_unbound # <<>> => ref_out = NullExpr

\* bind_refs returned null over a reference to z at the top level of a file, in a
\* Top of two files that fracture turned into DefBindings without an error
C9_Witness ==
  /\ ref_pc = "done"
  /\ ref_st.diag = <<>>
  /\ ref_out = NullExpr
  /\ "z" \in SeqSet(ref_unbound)
  /\ Len(ref_top.defmaps) = 2
  /\ \E e \in RefEntries :
       /\ e.name = "z" /\ ~e.found /\ e.rebound = "z" /\ e.after = e.before
       /\ Len(e.before) = 1
  /\ \E e \in RefEntries : e.found /\ Len(e.before) = 2

\* the nearest scope of the chain that defines the name
Nearest(e) ==
  CHOOSE k \in DOMAIN e.before :
    /\ Defines(e.before[k], e.name)
    /\ \A j \in 1..(k - 1) : ~Defines(e.before[j], e.name)

\* C10: rebind_ref finds a name exactly when some scope on the chain defines it,
\* resolves it in the nearest such scope, and there takes the file-local key
\* "p x" when the scope has prefix p and that key, the bare name otherwise.  So
\* a reference in a file that defines x at top level goes to that definition even
\* when another file owns a global x, and a reference under a lambda parameter
\* or an inner definition of the same name goes to that parameter or definition.
C10_LookupOrder ==
  Fractured =>
    \A e \in RefEntries :
      /\ e.found <=> \E k \in DOMAIN e.before : Defines(e.before[k], e.name)
      /\ e.found =>
           /\ e.scope = Nearest(e)
           /\ e.rebound = IF HasLocal(e.before[e.scope], e.name)
                          THEN FileLocal(e.before[e.scope].prefix, e.name)
                          ELSE e.name
      /\ \A k \in DOMAIN e.before :
           (/\ HasLocal(e.before[k], e.name)
            /\ e.name \in e.before[k].keys
            /\ \A j \in 1..(k - 1) : ~Defines(e.before[j], e.name))
           => e.rebound = FileLocal(e.before[k].prefix, e.name)
      /\ (Len(e.before) >= 2 /\ e.name \in e.before[1].keys) =>
           e.scope = 1 /\ e.rebound = e.name

\* one file owns the global x, another file defines its own x and refers to it
\* from under a lambda; and some reference to x sits under an inner x
C10_Witness ==
  /\ Fractured
  /\ \E e \in RefEntries :
       /\ e.name = "x" /\ e.found /\ e.scope = 2
       /\ e.before[2].prefix = 1
       /\ {"x", "1 x"} \subseteq e.before[2].keys
       /\ e.rebound = "1 x"
  /\ \E e \in RefEntries :
       /\ e.name = "x" /\ e.found /\ e.scope = 1 /\ e.rebound = "x"
       /\ Len(e.before) = 2
       /\ Defines(e.before[2], "x")

\* ------------------------------------------------------------------------
\* chain_publish inside a scope, as a state machine
\* ------------------------------------------------------------------------

\* largest number of contributions one publish map holds for one name
MaxPubs == 2

PubNameSeq == <<"ps", "qs">>
PubNames == {"ps", "qs"}

\* the contributions are literals, numbered in the order the files and the
\* publish maps hold them: 1, 2, ... for ps and 11, 12, ... for qs
RECURSIVE CountBefore(_, _, _)
CountBefore(counts, n, f) ==
  IF f <= 1 THEN 0 ELSE counts[f - 1][n] + CountBefore(counts, n, f - 1)

Contribs(counts, n, f) ==
  [k \in 1..counts[f][n] |->
     Literal((IF n = "qs" THEN 10 ELSE 0) + CountBefore(counts, n, f) + k)]

\* DefMap::Pubs: the names that have contributions, in key order
PubsOf(counts, f) ==
  LET names == SelectSeq(PubNameSeq, LAMBDA n : counts[f][n] > 0)
  IN [i \in 1..Len(names) |->
        [name |-> names[i], contribs |-> Contribs(counts, names[i], f)]]

\* the publish map of the enclosing Top: at most one contribution for a name
ParentPubs(pcounts) ==
  LET names == SelectSeq(PubNameSeq, LAMBDA n : pcounts[n] > 0)
  IN [i \in 1..Len(names) |->
        [name |-> names[i],
         contribs |-> <<Literal(IF names[i] = "qs" THEN 19 ELSE 9)>>]]

PubMap(nmap) == IF nmap = 0 THEN <<>> ELSE <<[name |-> "x", body |-> Literal(0)]>>

NoLog(chain) == [chain |-> chain, log |-> <<>>, diag |-> <<>>, crash |-> FALSE]

\* the scope chain at the moment fracture reaches a DefMap that is the body of
\* the first definition of a Top with one file
ParentChain(pcounts, inner) ==
  LET top == Top(<<DefMap(<<[name |-> "x", body |-> inner]>>, ParentPubs(pcounts),
                          NullExpr, FALSE)>>, <<>>, NullExpr)
      s1 == TopFiles(NoLog(<<TopBinding(<<>>)>>), 0, top, 1)
  IN [s1.chain EXCEPT ![1].current_index = 0, ![1].prefix = 0,
                      ![1].defs[0] = SetExpr(@, NullExpr)]

PubInit ==
  \E isTop \in BOOLEAN :
    \E nfiles \in 1..(IF isTop THEN MaxFiles ELSE 1) :
      \E counts \in [1..nfiles -> [PubNames -> 0..MaxPubs]] :
        \E nmap \in [1..nfiles -> 0..1] :
          \E pcounts \in [PubNames -> 0..(IF isTop THEN 0 ELSE 1)] :
            LET files == [f \in 1..nfiles |->
                            DefMap(PubMap(nmap[f]), PubsOf(counts, f), NullExpr, FALSE)]
                parent == IF isTop THEN <<>> ELSE ParentChain(pcounts, files[1])
            IN /\ pub_files = files
               /\ pub_chain = IF isTop THEN <<TopBinding(<<>>)>>
                              ELSE <<DefMapBinding(parent)>> \o parent
               /\ pub_ctr = 0
               /\ pub_file = 1
               /\ pub_i = 1
               /\ pub_j = 1
               /\ pub_sub = NullExpr
               /\ pub_pc = "file"

PubIsTop == pub_chain[1].prefix >= 0

\* the definitions of the map go into the scope; chain_publish is entered
PubEnterFile ==
  /\ pub_pc = "file"
  /\ LET b == pub_files[pub_file]
         entries == IF PubIsTop THEN TopEntries(<<>>, pub_chain[1].prefix, b.map)
                    ELSE b.map
     IN pub_chain' = [pub_chain EXCEPT ![1] = AddDefs(@, entries, 1)]
  /\ pub_i' = 1
  /\ pub_j' = 1
  /\ pub_pc' = "pubs"
  /\ UNCHANGED <<pub_files, pub_ctr, pub_file, pub_sub>>
  /\ UNCHANGED notPub

\* one iteration of the inner loop of chain_publish
PubContribution ==
  /\ pub_pc = "pubs"
  /\ pub_i <= Len(pub_files[pub_file].pub)
  /\ LET entry == pub_files[pub_file].pub[pub_i]
         r == PublishOne(pub_chain, pub_ctr, entry.name, ContribOrder(entry.contribs)[pub_j])
     IN /\ pub_chain' = r.chain
        /\ pub_ctr' = r.ctr
        /\ IF pub_j < Len(entry.contribs)
           THEN /\ pub_j' = pub_j + 1
                /\ UNCHANGED pub_i
           ELSE /\ pub_j' = 1
                /\ pub_i' = pub_i + 1
  /\ UNCHANGED <<pub_files, pub_file, pub_sub, pub_pc>>
  /\ UNCHANGED notPub

\* chain_publish returns and the Top has another file: ++tbinding.prefix
PubNextFile ==
  /\ pub_pc = "pubs"
  /\ pub_i > Len(pub_files[pub_file].pub)
  /\ pub_file < Len(pub_files)
  /\ pub_chain' = [pub_chain EXCEPT ![1].prefix = @ + 1]
  /\ pub_file' = pub_file + 1
  /\ pub_pc' = "file"
  /\ UNCHANGED <<pub_files, pub_ctr, pub_i, pub_j, pub_sub>>
  /\ UNCHANGED notPub

\* chain_publish returns for the last time; the scope goes on to its body with
\* current_index = -1 (fracturing the definitions in between adds edges, and
\* leaves the index and the names of the scope as they are)
PubBody ==
  /\ pub_pc = "pubs"
  /\ pub_i > Len(pub_files[pub_file].pub)
  /\ pub_file = Len(pub_files)
  /\ pub_chain' = [pub_chain EXCEPT ![1].current_index = -1]
  /\ pub_pc' = "body"
  /\ UNCHANGED <<pub_files, pub_ctr, pub_file, pub_i, pub_j, pub_sub>>
  /\ UNCHANGED notPub

\* a subscribe in the body of the scope: fracture calls rebind_subscribe
PubSubscribe ==
  /\ pub_pc = "body"
  /\ \E n \in PubNames :
       LET r == rebind_subscribe(pub_chain, n, 1)
       IN /\ pub_sub' = [name |-> n, expr |-> r.expr]
          /\ pub_chain' = r.chain
  /\ pub_pc' = "done"
  /\ UNCHANGED <<pub_files, pub_ctr, pub_file, pub_i, pub_j>>
  /\ UNCHANGED notPub

InitPub == PubInit /\ FBIdle /\ PMIdle /\ RefIdle /\ LexIdle /\ TyIdle /\ MainIdle /\ StrIdle /\ ConsIdle /\ HashIdle

NextPub == PubEnterFile \/ PubContribution \/ PubNextFile \/ PubBody \/ PubSubscribe

SpecPub == InitPub /\ [][NextPub]_vars

\* ------------------------------------------------------------------------
\* Properties of publish chaining
\* ------------------------------------------------------------------------

\* the definition a name denotes in the chain, from the innermost scope out
RECURSIVE PubDef(_, _)
PubDef(chain, name) ==
  IF chain = <<>> THEN NullExpr
  ELSE IF name \in DOMAIN chain[1].index
  THEN chain[1].defs[chain[1].index[name]]
  ELSE PubDef(Tail(chain), name)

\* the list a publish definition evaluates to: contribution ++ tail, the tail
\* read through its name; the definitions gone through are listed next to it
RECURSIVE PubValue(_, _, _)
PubValue(chain, name, fuel) ==
  LET def == PubDef(chain, name)
  IN IF def = NullExpr THEN [value |-> <<>>, names |-> <<>>, end |-> name]
     ELSE IF fuel = 0 THEN [value |-> <<>>, names |-> <<>>, end |-> "loop"]
     ELSE LET rest == PubValue(chain, def.expr.val.name, fuel - 1)
          IN [value |-> <<def.expr.fn.val>> \o rest.value,
              names |-> <<def.name>> \o rest.names,
              end |-> rest.end]

PubFuel == Cardinality(DOMAIN pub_chain[1].defs) + Len(pub_chain)

PubDepth == pub_chain[1].depth
PubHead(n) == PublishName(PubDepth, n)

\* the publication of the scope is complete
PubChained == pub_pc \in {"body", "done"}

\* the contributions of one publish map to a name, in the order it stores them
RECURSIVE StoredIn(_, _)
StoredIn(pub, n) ==
  IF pub = <<>> THEN <<>>
  ELSE IF Head(pub).name = n THEN Head(pub).contribs
  ELSE StoredIn(Tail(pub), n)

\* what the publish maps chained so far put in front of the enclosing scopes'
\* list: the maps of the later files first, each in its stored order
RECURSIVE StoredUpTo(_, _)
StoredUpTo(f, n) ==
  IF f = 0 THEN <<>> ELSE StoredIn(pub_files[f].pub, n) \o StoredUpTo(f - 1, n)

\* the same with every publish map read backwards
RECURSIVE ReversedUpTo(_, _)
ReversedUpTo(f, n) ==
  IF f = 0 THEN <<>>
  ELSE Reverse(StoredIn(pub_files[f].pub, n)) \o ReversedUpTo(f - 1, n)

\* the list of the nearest enclosing scope that publishes n; empty for Nil
EnclosingValue(n) ==
  IF Len(pub_chain) = 1 \/ PublishName(PubDepth - 1, n) \notin DOMAIN pub_chain[2].index
  THEN <<>>
  ELSE PubValue(Tail(pub_chain), PublishName(PubDepth - 1, n), PubFuel).value

\* the counter K of an intermediate name "publish d K n", 0 for any other name
ChainNo(name, n) ==
  IF \E K \in 1..pub_ctr : name = ChainName(PubDepth, K, n)
  THEN CHOOSE K \in 1..pub_ctr : name = ChainName(PubDepth, K, n)
  ELSE 0

\* C8 as stated: the head evaluates to c_k ++ ... ++ c_1 ++ tail
C8_LastContributionFirst ==
  PubChained =>
    \A n \in PubNames :
      StoredUpTo(Len(pub_files), n) # <<>> =>
        PubValue(pub_chain, PubHead(n), PubFuel).value
          = ReversedUpTo(Len(pub_files), n) \o EnclosingValue(n)

\* C8: once chain_publish has run over the publish maps of a scope at depth d,
\* a name n with contributions c_1..c_k (in the order its publish map stores
\* them) has a definition "publish d n" that evaluates to c_1 ++ ... ++ c_k ++
\* tail, where tail is what "publish d n" was before this publish map (an earlier
\* file of the same Top), else the enclosing scope's publication of n, else Nil;
\* stored as 1, 2 the head evaluates to 1 ++ 2 ++ Nil.  The head holds c_1, every
\* other contribution of the scope sits in a definition named "publish d K n",
\* the K being distinct numbers from 1 to the final value of the chain counter
\* that fall along the chain; and a subscribe in the body resolves to the head,
\* or to what the tail would be when the scope publishes nothing for n.
C8_PublishOrder ==
  PubChained =>
    \A n \in PubNames :
      LET stored == StoredUpTo(Len(pub_files), n)
          head == PubValue(pub_chain, PubHead(n), PubFuel)
      IN /\ (PubHead(n) \in DOMAIN pub_chain[1].index) <=> (stored # <<>>)
         /\ stored # <<>> =>
              /\ head.value = stored \o EnclosingValue(n)
              /\ head.end = "Nil"
              /\ head.names[1] = PubHead(n)
              /\ \A i \in 2..Len(stored) :
                   /\ ChainNo(head.names[i], n) > 0
                   /\ i < Len(stored) =>
                        ChainNo(head.names[i], n) > ChainNo(head.names[i + 1], n)
         /\ (pub_pc = "done" /\ pub_sub.name = n) =>
              /\ PubValue(pub_chain, pub_sub.expr.name, PubFuel).value
                   = stored \o EnclosingValue(n)
              /\ stored # <<>> => pub_sub.expr = VarRef(PubHead(n))

\* publish ps = 1 and publish ps = 2 in a DefMap at depth 1 under a Top that
\* publishes nothing for ps; subscribe ps in its body: "publish 1 ps" is
\* 1 ++ 2 ++ Nil, and 2 sits in an intermediate definition
C8_Witness ==
  /\ pub_pc = "done"
  /\ PubDepth = 1
  /\ StoredIn(pub_files[1].pub, "ps") = <<Literal(1), Literal(2)>>
  /\ pub_sub = [name |-> "ps", expr |-> VarRef("publish 1 ps")]
  /\ EnclosingValue("ps") = <<>>
  /\ LET head == PubValue(pub_chain, "publish 1 ps", PubFuel)
     IN /\ head.value = <<Literal(1), Literal(2)>>
        /\ head.end = "Nil"
        /\ \E K \in 1..pub_ctr : head.names = <<"publish 1 ps", ChainName(1, K, "ps")>>

\* ------------------------------------------------------------------------
\* The shape of the emitted DefBindings
\* ------------------------------------------------------------------------

\* the DefBindings built so far: the chain in out while levels are emitted
FBBuilt == IF fb_pc \in {"emit", "done"} THEN Layers(fb_out) ELSE <<>>

\* C11: in every DefBinding fracture_binding has built, order maps exactly the
\* names of its values and functions, to distinct indices that are exactly
\* 0 .. len(val)+len(fun)-1; the value val[k] has index k (below len(val)), the
\* function fun[j] has index len(val)+j; scc has one entry for every function,
\* the functions with one scc id form a contiguous block of fun, and scc[j] is
\* the position of the first function of that block (scc[j] <= j and
\* scc[scc[j]] = scc[j]); the blocks are the strongly connected components.
C11_DefBindingShape ==
  \A k \in DOMAIN FBBuilt :
    LET b == FBBuilt[k]
        nv == Len(b.val)
        nf == Len(b.fun)
    IN /\ DOMAIN b.order = {fb_defs[w].name : w \in Members(b)}
       /\ \A x \in DOMAIN b.order : \A y \in DOMAIN b.order :
            b.order[x] = b.order[y] => x = y
       /\ {b.order[x] : x \in DOMAIN b.order} = 0..(nv + nf - 1)
       /\ \A i \in 1..nv : b.order[fb_defs[b.val[i]].name] = i - 1
       /\ \A j \in 1..nf : b.order[fb_defs[b.fun[j]].name] = nv + j - 1
       /\ Len(b.scc) = nf
       /\ \A j \in 1..nf :
            /\ b.scc[j] \in 0..(j - 1)
            /\ b.scc[b.scc[j] + 1] = b.scc[j]
            /\ \A i \in (b.scc[j] + 1)..j : b.scc[i] = b.scc[j]
            /\ \A i \in 1..nf :
                 b.scc[i] = b.scc[j] <=> MutuallyReachable(b.fun[i], b.fun[j])

\* a finished DefBinding that holds a value and two functions of one SCC, the
\* functions indexed after the value
C11_Witness ==
  /\ fb_pc = "done"
  /\ \E k \in DOMAIN FBBuilt :
       LET b == FBBuilt[k]
       IN /\ Len(b.val) = 1 /\ Len(b.fun) = 2
          /\ b.scc = <<0, 0>>
          /\ b.order[fb_defs[b.fun[2]].name] = 2


\* ------------------------------------------------------------------------
\* Resolution run again
\* ------------------------------------------------------------------------

\* fracture(out, 0): the call of bind_refs, on the tree it produced
FractureAgain ==
  fracture(ref_out, [chain |-> <<>>, log |-> <<>>, diag |-> <<>>, crash |-> FALSE])

\* rebind_ref on the key an earlier rebind_ref left in the VarRef, in the
\* scopes as that call left them
ResolveAgain(e) == rebind_ref(e.chain, e.rebound, 1)

\* C12: fracture run on the tree that fracture produced returns that tree and
\* dereferences nothing, prints nothing and resolves nothing; and every name
\* that rebind_ref rewrote to its key is found again by rebind_ref in the same
\* scopes, in the same scope, under the same key, and adds no edge.
C12_Idempotence ==
  /\ (ref_pc = "fractured" /\ ref_out # NullExpr) =>
       /\ FractureAgain.expr = ref_out
       /\ ~FractureAgain.st.crash
       /\ FractureAgain.st.diag = <<>>
  /\ Fractured =>
       \A e \in RefEntries :
         e.found =>
           /\ ResolveAgain(e).found
           /\ ResolveAgain(e).name = e.rebound
           /\ ResolveAgain(e).scope = e.scope
           /\ ResolveAgain(e).chain = e.chain

\* a DefBinding came out, and a reference inside a lambda of the second file
\* was rewritten to the file-local key of that file
C12_Witness ==
  /\ ref_pc = "fractured"
  /\ ref_out # NullExpr
  /\ ref_out.type = "DefBinding"
  /\ FractureAgain.expr = ref_out
  /\ \E e \in RefEntries :
       /\ e.found /\ e.name = "x" /\ e.rebound = "1 x" /\ e.scope = 2
       /\ ResolveAgain(e).name = "1 x"

\* ------------------------------------------------------------------------
\* The lexer: Lexer::consume and the layout tokens
\* ------------------------------------------------------------------------

\* deepest indentation of a line, in spaces
MaxIndent == 3
\* largest number of tokens lex_top finds in a file
MaxToks == 4

\* what lex_top returns: a newline with the spaces that follow it (a newline
\* before a blank or comment line is swallowed and never returned), an invalid
\* character, or any other token, here an identifier
RawEOL(spaces) == [type |-> "EOL", spaces |-> spaces]
RawTokens ==
  {[type |-> "ID", spaces |-> 0], [type |-> "ERROR", spaces |-> 0]}
  \cup {RawEOL(n) : n \in 0..MaxIndent}

\* Symbol lex_top(input_t &in): the next token, END once the file is exhausted
lex_top(input) ==
  IF input = <<>> THEN [type |-> "END", spaces |-> 0] ELSE Head(input)

\* state->tabs.back()
Back(tabs) == tabs[Len(tabs)]

\* state->tabs.pop_back()
PopBack(tabs) == SubSeq(tabs, 1, Len(tabs) - 1)

\* if (state->indent < state->tabs.back()): a dedent is due
DedentDue(indent, tabs) == indent < Back(tabs)

\* else if (state->indent > state->tabs.back()): an indent is due
IndentDueOrEqual(indent, tabs) == indent >= Back(tabs)
IndentDue(indent, tabs) == indent > Back(tabs)

\* void Lexer::consume(): s holds input, tabs, indent, eol and next
RECURSIVE consume(_)
consume(s) ==
  IF s.eol
  THEN IF DedentDue(s.indent, s.tabs)
       THEN [s EXCEPT !.tabs = PopBack(s.tabs), !.next = "DEDENT"]
       ELSE [s EXCEPT !.next = "EOL", !.eol = FALSE]
  ELSE IF IndentDue(s.indent, s.tabs)
  THEN [s EXCEPT !.tabs = Append(s.tabs, s.indent), !.next = "INDENT"]
  ELSE LET tok == lex_top(s.input)
           rest == IF s.input = <<>> THEN <<>> ELSE Tail(s.input)
       IN IF tok.type = "EOL"
          THEN consume([s EXCEPT !.input = rest, !.next = "EOL",
                                 !.indent = tok.spaces, !.eol = TRUE])
          ELSE [s EXCEPT !.input = rest, !.next = tok.type]

LexState ==
  [input |-> lex_input, tabs |-> lex_tabs, indent |-> lex_indent,
   eol |-> lex_eol, next |-> lex_next]

\* the state consume leaves, and the token appended to what was produced
LexSet(s) ==
  /\ lex_input' = s.input
  /\ lex_tabs' = s.tabs
  /\ lex_indent' = s.indent
  /\ lex_eol' = s.eol
  /\ lex_next' = s.next
  /\ lex_out' = Append(lex_out, [type |-> s.next, indent |-> s.indent,
                                 before |-> lex_tabs, after |-> s.tabs])

\* the token sequences of a file: no newline is followed at once by another,
\* since lex_top swallows a newline that stands before a blank line
LexInputs ==
  {in \in UNION {[1..n -> RawTokens] : n \in 0..MaxToks} :
     \A i \in 1..(Len(in) - 1) : ~(in[i].type = "EOL" /\ in[i + 1].type = "EOL")}

\* state_t(): tabs = [0], indent = 0, eol = false; next(ERROR, LOCATION, 0)
LexInit ==
  /\ lex_file \in LexInputs
  /\ lex_input = lex_file
  /\ lex_tabs = <<0>>
  /\ lex_indent = 0
  /\ lex_eol = FALSE
  /\ lex_next = "ERROR"
  /\ lex_out = <<>>
  /\ lex_pc = "new"

\* Lexer::Lexer(const char *file): if (engine->file) consume();
LexConstruct ==
  /\ lex_pc = "new"
  /\ \E opened \in BOOLEAN :
       IF opened
       THEN LexSet(consume(LexState)) /\ lex_pc' = "open"
       ELSE /\ lex_pc' = "nofile"
            /\ UNCHANGED <<lex_input, lex_tabs, lex_indent, lex_eol, lex_next, lex_out>>
  /\ UNCHANGED lex_file
  /\ UNCHANGED notLex

\* the parser asks for the next token, until it has seen END
LexConsume ==
  /\ lex_pc = "open"
  /\ lex_next # "END"
  /\ LexSet(consume(LexState))
  /\ UNCHANGED lex_pc
  /\ UNCHANGED lex_file
  /\ UNCHANGED notLex

InitLex == LexInit /\ FBIdle /\ PMIdle /\ PubIdle /\ RefIdle /\ TyIdle /\ MainIdle /\ StrIdle /\ ConsIdle /\ HashIdle

NextLex == LexConstruct \/ LexConsume

SpecLex == InitLex /\ [][NextLex]_vars

\* ------------------------------------------------------------------------
\* Properties of the layout tokens
\* ------------------------------------------------------------------------

LayoutTokens == {"EOL", "INDENT", "DEDENT"}

\* the token at i is the last DEDENT of its line and the indent of the line lies
\* strictly between two entries of the stack: a misaligned dedent
Misaligned(i) ==
  /\ lex_out[i].type = "DEDENT"
  /\ lex_out[i].indent > Back(lex_out[i].after)

\* what holds of every INDENT and DEDENT, and of the stack: it starts as [0],
\* an INDENT comes when the indent exceeds the top and pushes it, a DEDENT comes
\* when the indent is below the top and pops it, the DEDENTs of a line go on
\* until indent >= top, and a token of a line is lexed only once all of them
\* are out
LayoutPushPop ==
  /\ lex_pc = "new" => lex_tabs = <<0>>
  /\ \A i \in DOMAIN lex_out :
       LET t == lex_out[i]
       IN /\ t.type = "INDENT" =>
               t.indent > Back(t.before) /\ t.after = Append(t.before, t.indent)
          /\ t.type = "DEDENT" =>
               /\ t.indent < Back(t.before) /\ t.after = PopBack(t.before)
               /\ (t.indent < Back(t.after) /\ i < Len(lex_out)) =>
                    lex_out[i + 1].type = "DEDENT"
          /\ t.type \notin LayoutTokens => t.indent = Back(t.after)
          /\ t.type \notin {"INDENT", "DEDENT"} => t.after = t.before

\* C13: the indentation stack starts as [0]; INDENT is emitted, and the indent
\* pushed, when the indent of a new line exceeds the top; DEDENT is emitted, and
\* the stack popped, while the indent is below the top; and the token that
\* follows a misaligned dedent is ERROR.
C13_LayoutRule ==
  /\ LayoutPushPop
  /\ \A i \in DOMAIN lex_out :
       (Misaligned(i) /\ i < Len(lex_out)) => lex_out[i + 1].type = "ERROR"

\* a line indented by 1 under a block indented by 2: the block is closed by
\* DEDENT, then come EOL and an INDENT that pushes 1, and no ERROR at all
C13_Witness ==
  /\ Len(lex_out) >= 5
  /\ \E i \in 1..(Len(lex_out) - 2) :
       /\ Misaligned(i)
       /\ lex_out[i].before = <<0, 2>> /\ lex_out[i].indent = 1
       /\ lex_out[i + 1].type = "EOL"
       /\ lex_out[i + 2].type = "INDENT" /\ lex_out[i + 2].after = <<0, 1>>
  /\ \A i \in DOMAIN lex_out : lex_out[i].type # "ERROR"

\* ------------------------------------------------------------------------
\* bind_refs on programs with applications: what explore unifies
\* ------------------------------------------------------------------------

\* how many calls of TypeVar::unify may fail in one run
MaxFailures == 1
\* an upper limit of the calls of TypeVar::unify of one run
MaxCalls == 26

\* the bodies of the global definitions f and g, and of the value v
TyFunBodies ==
  {Literal(0)}
  \cup {Lambda("a", VarRef(n)) : n \in {"a", "f", "g", "v"}}
  \cup {Lambda("a", App(VarRef(n), VarRef(m))) : n \in {"f", "g"}, m \in {"a", "v"}}
  \cup {App(VarRef(n), VarRef("v")) : n \in {"f", "g"}}
TyValBodies == {NullExpr, Literal(0), App(VarRef("f"), VarRef("f"))}
TyTopBodies ==
  {VarRef("f"), App(VarRef("f"), VarRef("v")), App(VarRef("g"), VarRef("f"))}

TyMap(bf, bg, bv) ==
  <<[name |-> "f", body |-> bf]>>
  \o (IF bg = NullExpr THEN <<>> ELSE <<[name |-> "g", body |-> bg]>>)
  \o (IF bv = NullExpr THEN <<>> ELSE <<[name |-> "v", body |-> bv]>>)

TyInit ==
  \E bf \in TyFunBodies, bg \in TyFunBodies \cup {NullExpr}, bv \in TyValBodies :
    \E body \in TyTopBodies :
      /\ ty_top = Top(<<DefMap(TyMap(bf, bg, bv), <<>>, NullExpr, FALSE)>>,
                      [n \in {"f", "g", "v"} |-> 0], body)
      /\ ty_out = NullExpr
      /\ ty_res = <<>>
      /\ ty_pc = "start"

\* std::unique_ptr<Expr> out = fracture(std::move(top), 0);
TyFracture ==
  /\ ty_pc = "start"
  /\ LET r == fracture(ty_top, [chain |-> <<>>, log |-> <<>>, diag |-> <<>>,
                                crash |-> FALSE])
     IN /\ ty_out' = r.expr
        /\ ty_pc' = IF r.expr = NullExpr THEN "done" ELSE "fractured"
  /\ UNCHANGED <<ty_top, ty_res>>
  /\ UNCHANGED notTy

\* the sets of at most MaxFailures calls that fail
FailSets ==
  UNION {{{c[i] : i \in 1..k} : c \in [1..k -> 1..MaxCalls]} : k \in 0..MaxFailures}

\* if (out && !explore(out.get(), pmap, &bottom)) out.reset();
TyExplore ==
  /\ ty_pc = "fractured"
  /\ \E fail \in FailSets :
       ty_res' = explore(ty_out, <<>>, <<Bottom>>, ExploreState(fail))
  /\ ty_pc' = "done"
  /\ UNCHANGED <<ty_top, ty_out>>
  /\ UNCHANGED notTy

InitTy == TyInit /\ FBIdle /\ PMIdle /\ PubIdle /\ RefIdle /\ LexIdle /\ MainIdle /\ StrIdle /\ ConsIdle /\ HashIdle

NextTy == TyFracture \/ TyExplore

SpecTy == InitTy /\ [][NextTy]_vars

\* ------------------------------------------------------------------------
\* Properties of explore
\* ------------------------------------------------------------------------

Explored == ty_pc = "done" /\ ty_res # <<>>
TyCalls == ty_res.st.calls
TyReturns == {ty_res.st.ret[i] : i \in DOMAIN ty_res.st.ret}

\* the call of unify that the App at the node made for the reason why
AppCalls(node, why) ==
  {i \in DOMAIN TyCalls : TyCalls[i].node = node /\ TyCalls[i].why = why}

\* the call was made, once, on these two types, and returned true
Unified(node, why, a, b) ==
  \E i \in AppCalls(node, why) :
    /\ AppCalls(node, why) = {i}
    /\ TyCalls[i].a = a /\ TyCalls[i].b = b
    /\ TyCalls[i].ok

\* C14: when explore returns true for an App, the type of the function was
\* unified with a fresh two-argument function type, its first argument with the
\* type of the argument and its second with the type of the App, all three with
\* success; and when one of these unifications fails explore returns false
\* for the App.
C14_AppSoundness ==
  Explored =>
    \A r \in TyReturns :
      r.type = "App" =>
        LET fn == TV(r.node \o <<1>>)
            val == TV(r.node \o <<2>>)
        IN /\ r.ok => /\ Unified(r.node, "fn", fn, FN2)
                      /\ Unified(r.node, "arg", Sub(fn, 0), val)
                      /\ Unified(r.node, "result", Sub(fn, 1), TV(r.node))
           /\ (\E i \in DOMAIN TyCalls :
                 /\ TyCalls[i].node = r.node
                 /\ TyCalls[i].why \in {"fn", "arg", "result"}
                 /\ ~TyCalls[i].ok) => ~r.ok

\* an App for which explore returned true, and another one, in the same run,
\* for which it returned false because its argument did not fit
C14_Witness ==
  /\ Explored
  /\ \E r \in TyReturns : r.type = "App" /\ r.ok
  /\ \E r \in TyReturns :
       /\ r.type = "App" /\ ~r.ok
       /\ \E i \in AppCalls(r.node, "arg") : ~TyCalls[i].ok

\* the node at a path of a tree
RECURSIVE NodeAt(_, _)
NodeAt(expr, path) ==
  IF path = <<>> THEN expr
  ELSE LET c == Head(path)
       IN IF expr.type = "App"
          THEN NodeAt(IF c = 1 THEN expr.fn ELSE expr.val, Tail(path))
          ELSE IF expr.type = "Lambda" THEN NodeAt(expr.body, Tail(path))
          ELSE IF c = 0 THEN NodeAt(expr.body, Tail(path))
          ELSE IF c <= Len(expr.val) THEN NodeAt(expr.val[c], Tail(path))
          ELSE NodeAt(expr.fun[c - Len(expr.val)], Tail(path))

TyRefs == {ty_res.st.refs[i] : i \in DOMAIN ty_res.st.refs}
TyMarks == ty_res.st.marks

\* the references that explore bound to a definition of a DefBinding
BindingRefs == {r \in TyRefs : NodeAt(ty_out, r.at).type = "DefBinding"}

\* the child of the DefBinding the reference sits in: 0 the body, else a member
ChildOf(r) == r.node[Len(r.at) + 1]

\* the unification explore asked for at the reference: with a clone or not
CloneUnified(r) ==
  \E i \in DOMAIN TyCalls :
    /\ TyCalls[i].node = r.node /\ TyCalls[i].why = "ref"
    /\ TyCalls[i].b = Clone(TV(r.at \o <<r.offset + 1>>))
DirectlyUnified(r) ==
  \E i \in DOMAIN TyCalls :
    /\ TyCalls[i].node = r.node /\ TyCalls[i].why = "ref"
    /\ TyCalls[i].b = TV(r.at \o <<r.offset + 1>>)

\* C15: inside fun[i] of a DefBinding a reference to a definition of that
\* binding is cloned iff its index is below len(val)+scc[i]: the values and the
\* functions of earlier components are cloned, the members of the component of
\* fun[i] are unified directly; in the body every definition is cloned; and
\* the value of generalized never decreases while the binding is explored and
\* ends as len(val)+len(fun).
C15_Watermark ==
  Explored =>
    /\ \A r \in BindingRefs :
         LET b == NodeAt(ty_out, r.at)
             nv == Len(b.val)
             c == ChildOf(r)
             i == c - nv
             o == r.offset - nv + 1
         IN /\ SubSeq(r.node, 1, Len(r.at)) = r.at
            /\ c = 0 \/ c > nv
            /\ r.def <=> CloneUnified(r)
            /\ ~r.def <=> DirectlyUnified(r)
            /\ c = 0 => r.def
            /\ c > nv =>
                 /\ r.def <=> r.offset < nv + b.scc[i]
                 /\ r.offset < nv => r.def
                 /\ r.offset >= nv =>
                      /\ r.def <=> b.scc[o] < b.scc[i]
                      /\ ~r.def <=> b.scc[o] = b.scc[i]
    /\ \A m, n \in DOMAIN TyMarks :
         (m < n /\ TyMarks[m].binding = TyMarks[n].binding) =>
           TyMarks[m].generalized <= TyMarks[n].generalized
    /\ \A m \in DOMAIN TyMarks :
         LET b == NodeAt(ty_out, TyMarks[m].binding)
         IN /\ TyMarks[m].generalized <= Len(b.val) + Len(b.fun)
            /\ \E n \in m..Len(TyMarks) :
                 /\ TyMarks[n].binding = TyMarks[m].binding
                 /\ TyMarks[n].generalized = Len(b.val) + Len(b.fun)

\* one DefBinding with two components: the function of the first refers to
\* itself (unified directly), the function of the second to the function of the
\* first (cloned), and the body to a function of the binding (cloned)
C15_Witness ==
  /\ Explored
  /\ \E r1, r2, r3 \in BindingRefs :
       /\ r1.at = r2.at /\ r2.at = r3.at
       /\ ChildOf(r1) > 0 /\ ChildOf(r2) > ChildOf(r1)
       /\ ~r1.def /\ r1.offset >= Len(NodeAt(ty_out, r1.at).val)
       /\ r2.def /\ r2.offset >= Len(NodeAt(ty_out, r2.at).val)
       /\ ChildOf(r3) = 0 /\ r3.def

\* ------------------------------------------------------------------------
\* Further properties of the pattern compiler
\* ------------------------------------------------------------------------

\* cons_lookup printed "not found" or a wrong number of parameters
BadConstructor == HasDiag("ConstructorNotFound") \/ HasDiag("WrongParameterCount")

\* C16: a match in which a pattern names an uppercase identifier that is no
\* constructor, or a constructor with the wrong number of sub-patterns, is
\* rejected: rebind_match returns null.
C16_BadConstructorRejected ==
  (pm_pc = "done" /\ BadConstructor) => pm_out = NullExpr

\* match x with the single arm Foo, where nothing defines Foo: cons_lookup
\* prints "Constructor Foo in pattern match not found", and the match is accepted
C16_Witness ==
  /\ PMAccepted
  /\ pm_match.nargs = 1
  /\ NumArms = 1
  /\ pm_match.arms[1].pattern = Leaf("Foo")
  /\ pm_diag = <<[kind |-> "ConstructorNotFound", name |-> "Foo"]>>

\* the positions of the patterns of the model: the root, its children, theirs
Positions ==
  {<<>>} \cup {<<i>> : i \in 0..1} \cup {<<i, j>> : i \in 0..1, j \in 0..1}

\* the sum the pattern names at the position, NoSum where it names none
RECURSIVE SumAt(_, _)
SumAt(t, path) ==
  IF path = <<>> THEN t.sum
  ELSE IF Head(path) + 1 \in DOMAIN t.children
  THEN SumAt(t.children[Head(path) + 1], Tail(path))
  ELSE NoSum

\* two rows name constructors of different sums at the position
DifferentSums(path) ==
  \E i, j \in 1..NumArms :
    /\ SumAt(ArmTree(i), path) # NoSum
    /\ SumAt(ArmTree(j), path) # NoSum
    /\ SumAt(ArmTree(i), path) # SumAt(ArmTree(j), path)

\* C17 as stated: a match in which two rows name, at the same position,
\* constructors of different sums is never accepted.
C17_DifferentSumsRejected ==
  (pm_pc = "done" /\ \E path \in Positions : DifferentSums(path)) => pm_out = NullExpr

\* what does hold: a match on one value in which two rows name constructors of
\* different sums at the root is never accepted; and "is not a member of" is
\* printed only for two rows that name different sums at one position, and then
\* the match is rejected.  Rows that an earlier expansion put into different
\* buckets are never compared.
NotAMemberInOneBucket ==
  pm_pc = "done" =>
    /\ (pm_match.nargs = 1 /\ DifferentSums(<<>>)) => pm_out = NullExpr
    /\ HasDiag("NotAMember") =>
         /\ pm_out = NullExpr
         /\ \E path \in Positions : DifferentSums(path)

\* the arms Cons True True, Cons False Nil and _ : the tail of the list is
\* matched against True in one bucket and against Nil in the other, nothing is
\* printed and the match is accepted
C17_Witness ==
  /\ PMAccepted
  /\ pm_diag = <<>>
  /\ NumArms = 3
  /\ pm_match.arms[1].pattern = [name |-> "Cons", args |-> <<Leaf("True"), Leaf("True")>>]
  /\ pm_match.arms[2].pattern = [name |-> "Cons", args |-> <<Leaf("False"), Leaf("Nil")>>]
  /\ pm_match.arms[3].pattern = Leaf("_")
  /\ DifferentSums(<<1>>)

\* the shapes printed after "missing:"
MissingShapes ==
  {pm_diag[k].missing : k \in {d \in DOMAIN pm_diag : pm_diag[d].kind = "NonExhaustive"}}

\* the values the model knows, of every type
AllShapes == UNION {InputShapes(ty) : ty \in MatchTypes}

\* C18: when expand_patterns rejects a match as non-exhaustive, no arm without
\* a guard matches any value of the shape printed after "missing:", and when
\* the arms are patterns of one type there is a value of that type of the
\* printed shape; for the single arm Cons _ _ the shape is Nil.
C18_MissingIsCounterExample ==
  (pm_pc = "done" /\ HasDiag("NonExhaustive")) =>
    /\ pm_out = NullExpr
    /\ \A m \in MissingShapes :
         /\ \A v \in AllShapes :
              Matches(m, v) =>
                \A i \in 1..NumArms : ~ArmGuard(i) => ~Matches(ArmTree(i), v)
         /\ \A ty \in TypesOfMatch : \E v \in InputShapes(ty) : Matches(m, v)
    /\ (pm_match.nargs = 1 /\ NumArms = 1
        /\ pm_match.arms[1].pattern.name = "Cons" /\ pm_diag[1].kind = "NonExhaustive") =>
         (pm_diag[1].missing.sum = "List" /\ pm_diag[1].missing.cons = 0)

\* a match on a list of Booleans, well typed, rejected with a missing shape two
\* constructors deep (Cons False _ or the like) although an arm with a guard
\* matches values of that shape
C18_Witness ==
  /\ pm_pc = "done"
  /\ HasDiag("NonExhaustive")
  /\ TList(TBoolean) \in TypesOfMatch
  /\ \E m \in MissingShapes :
       /\ m.sum = "List" /\ m.cons = 1
       /\ m.children[1].sum = "Boolean"
       /\ \E i \in 1..NumArms : \E v \in InputShapes(TList(TBoolean)) :
            ArmGuard(i) /\ Matches(ArmTree(i), v) /\ Matches(m, v)

\* the part of a value at a path of the prototype
RECURSIVE ValueAt(_, _)
ValueAt(v, path) ==
  IF path = <<>> THEN v ELSE ValueAt(v.children[Head(path) + 1], Tail(path))

\* the arm the compiled tree runs on a value when exactly the guards of the
\* arms in holds are true: the index f of "_ f<f>", -1 when the tree is stuck
RECURSIVE Run(_, _, _)
Run(expr, v, holds) ==
  IF expr.type = "Arm" THEN expr.f
  ELSE IF expr.type = "Guard"
  THEN IF expr.g \in holds THEN Run(expr.yes, v, holds) ELSE Run(expr.no, v, holds)
  ELSE LET at == ValueAt(v, expr.path)
       IN IF at.sum # expr.sum THEN -1
          ELSE Run(expr.cases[at.cons + 1].body, v, holds)

\* the first arm, in source order, that matches the value and whose guard, if
\* it has one, holds; -1 when there is none
RECURSIVE FirstArm(_, _, _)
FirstArm(i, v, holds) ==
  IF i > NumArms THEN -1
  ELSE IF Matches(ArmTree(i), v) /\ (ArmGuard(i) => (i - 1) \in holds) THEN i - 1
  ELSE FirstArm(i + 1, v, holds)

GuardedArms == {i - 1 : i \in {a \in 1..NumArms : ArmGuard(a)}}

\* C20: in an accepted match, whatever guards hold, the compiled tree runs
\* the first arm that matches the value and whose guard (if any) holds: where
\* the guard of the selected arm is false the tree goes on with the rows that
\* remain, so a later arm covering the shape is run; a match whose only arm for
\* some shape is guarded is rejected as non-exhaustive; and when expand_patterns
\* has returned a tree the rows are back in the vector in their original order.
C20_GuardedArms ==
  /\ (PMAccepted /\ ~BadConstructor) =>
       \A ty \in TypesOfMatch : \A v \in InputShapes(ty) :
         \A holds \in SUBSET GuardedArms :
           /\ Run(pm_out, v, holds) = FirstArm(1, v, holds)
           /\ Run(pm_out, v, holds) # -1
  /\ (pm_pc = "done" /\ pm_ok /\ ~BadConstructor /\ ~HasDiag("NotAMember")
      /\ \E ty \in TypesOfMatch : \E v \in InputShapes(ty) :
           \A i \in 1..NumArms : Matches(ArmTree(i), v) => ArmGuard(i)) =>
       (pm_out = NullExpr /\ (HasDiag("NonExhaustive") \/ HasDiag("Unreachable")))
  /\ (pm_pc = "done" /\ pm_ok /\ NumArms = 1 /\ ArmGuard(1) /\ ArmTree(1).sum = NoSum) =>
       (pm_out = NullExpr /\ HasDiag("NonExhaustive") /\ Len(pm_patterns) = 2
        /\ pm_patterns[2].index = 0 /\ pm_patterns[2].uses = 1)
  /\ PMExpanded =>
       /\ Len(pm_patterns) = NumArms + 1
       /\ \A i \in 1..NumArms :
            /\ pm_patterns[i + 1].index = i - 1
            /\ pm_patterns[i + 1].guard = ArmGuard(i)

\* an accepted match whose first arm is guarded and matches a value that the
\* last arm matches too: with the guard false the tree runs the last arm
C20_Witness ==
  /\ PMAccepted /\ ~BadConstructor
  /\ NumArms = 3
  /\ ArmGuard(1)
  /\ \E ty \in TypesOfMatch : \E v \in InputShapes(ty) :
       /\ Matches(ArmTree(1), v) /\ ~Matches(ArmTree(2), v) /\ Matches(ArmTree(3), v)
       /\ Run(pm_out, v, {}) = 2
       /\ Run(pm_out, v, {0}) = 0

\* ------------------------------------------------------------------------
\* The driver: main from "if (noparse) return 0;" to the end
\* ------------------------------------------------------------------------

\* largest number of wake files find_all_wakefiles returns
MaxWakeFiles == 2
\* largest number of targets
MaxTargets == 2
\* how often the loop around runtime.run calls it
MaxRuns == 2

\* bool noparse, notype, noexecute: lines 172-174
MainFlags ==
  {[noparse |-> np, notype |-> np \/ parse, add |-> add,
    noexecute |-> np \/ parse \/ add \/ other] :
     np \in BOOLEAN, parse \in BOOLEAN, add \in BOOLEAN, other \in BOOLEAN}

MainInit ==
  /\ mn_flags \in MainFlags
  /\ mn_files = 0
  /\ mn_targets \in 0..MaxTargets
  /\ mn_ok = TRUE
  /\ mn_seen = {}
  /\ mn_did = {}
  /\ mn_exit = -1
  /\ mn_runs = 0
  /\ mn_pc = "noparse"

\* return status;
MainReturn(status) ==
  /\ mn_exit' = status
  /\ mn_pc' = "exit"

\* if (noparse) return 0;  bool ok = true;
\* auto wakefiles = find_all_wakefiles(ok, workspace);
MainWakefiles ==
  /\ mn_pc = "noparse"
  /\ IF mn_flags.noparse
     THEN MainReturn(0) /\ UNCHANGED <<mn_files, mn_ok, mn_seen>>
     ELSE \E ok \in BOOLEAN : \E n \in 0..MaxWakeFiles :
            /\ mn_ok' = ok
            /\ mn_files' = n
            /\ mn_seen' = IF ok THEN mn_seen ELSE mn_seen \cup {"wakefiles"}
            /\ mn_pc' = "sources"
            /\ UNCHANGED mn_exit
  /\ UNCHANGED <<mn_runs, mn_flags, mn_targets, mn_did>>
  /\ UNCHANGED notMain

\* bool sources = find_all_sources(runtime, workspace); ok &= sources;
MainSources ==
  /\ mn_pc = "sources"
  /\ \E sources \in BOOLEAN :
       /\ mn_ok' = (mn_ok /\ sources)
       /\ mn_seen' = IF sources THEN mn_seen ELSE mn_seen \cup {"sources"}
  /\ mn_pc' = "parse"
  /\ UNCHANGED <<mn_runs, mn_flags, mn_files, mn_targets, mn_did, mn_exit>>
  /\ UNCHANGED notMain

\* for (auto &i : wakefiles) { Lexer lex(...); parse_top(*top, lex);
\*                             if (lex.fail) ok = false; }
MainParse ==
  /\ mn_pc = "parse"
  /\ IF mn_files = 0
     THEN mn_pc' = "targets" /\ UNCHANGED <<mn_files, mn_ok, mn_seen>>
     ELSE \E fail \in BOOLEAN :
            /\ mn_files' = mn_files - 1
            /\ mn_ok' = IF fail THEN FALSE ELSE mn_ok
            /\ mn_seen' = IF fail THEN mn_seen \cup {"lexer"} ELSE mn_seen
            /\ UNCHANGED mn_pc
  /\ UNCHANGED <<mn_runs, mn_flags, mn_targets, mn_did, mn_exit>>
  /\ UNCHANGED notMain

\* for (i < targets.size()) { Lexer lex(...); body = new App(..., parse_command(lex));
\*                            if (lex.fail) ok = false; }
MainTargets ==
  /\ mn_pc = "targets"
  /\ IF mn_targets = 0
     THEN mn_pc' = "notype" /\ UNCHANGED <<mn_targets, mn_ok, mn_seen>>
     ELSE \E fail \in BOOLEAN :
            /\ mn_targets' = mn_targets - 1
            /\ mn_ok' = IF fail THEN FALSE ELSE mn_ok
            /\ mn_seen' = IF fail THEN mn_seen \cup {"lexer"} ELSE mn_seen
            /\ UNCHANGED mn_pc
  /\ UNCHANGED <<mn_runs, mn_flags, mn_files, mn_did, mn_exit>>
  /\ UNCHANGED notMain

\* ok = ok && sums_ok(): sums_ok is called only while ok holds
OkWithoutSums(ok, sums) == ok
OkAndSums(ok, sums) == ok /\ sums

\* if (notype) return ok?0:1;
\* root = bind_refs(std::move(top), pmap); if (!root) ok = false;
\* ok = ok && sums_ok(); if (!ok) { ...; return 1; }
MainBind ==
  /\ mn_pc = "notype"
  /\ IF mn_flags.notype
     THEN MainReturn(IF mn_ok THEN 0 ELSE 1) /\ UNCHANGED <<mn_ok, mn_seen>>
     ELSE \E root \in BOOLEAN : \E sums \in BOOLEAN :
            LET bound == mn_ok /\ root
                ok == OkAndSums(bound, sums)
            IN /\ mn_ok' = ok
               /\ mn_seen' = mn_seen
                               \cup (IF root THEN {} ELSE {"bind_refs"})
                               \cup (IF bound /\ ~sums THEN {"sums_ok"} ELSE {})
               /\ IF ok THEN mn_pc' = "add" /\ UNCHANGED mn_exit
                  ELSE MainReturn(1)
  /\ UNCHANGED <<mn_runs, mn_flags, mn_files, mn_targets, mn_did>>
  /\ UNCHANGED notMain

\* if (add) { db.add_target(targets.back()); ... }  if (noexecute) return 0;
MainAdd ==
  /\ mn_pc = "add"
  /\ mn_did' = IF mn_flags.add THEN mn_did \cup {"add_target"} ELSE mn_did
  /\ IF mn_flags.noexecute THEN MainReturn(0)
     ELSE mn_pc' = "init" /\ UNCHANGED mn_exit
  /\ UNCHANGED <<mn_runs, mn_flags, mn_files, mn_targets, mn_ok, mn_seen>>
  /\ UNCHANGED notMain

\* root->hash(); db.prepare(); runtime.init(root.get());
MainRuntimeInit ==
  /\ mn_pc = "init"
  /\ mn_did' = mn_did \cup {"init"}
  /\ mn_pc' = "run"
  /\ UNCHANGED <<mn_runs, mn_flags, mn_files, mn_targets, mn_ok, mn_seen, mn_exit>>
  /\ UNCHANGED notMain

\* do { runtime.run(); } while (!runtime.abort && jobtable.wait(runtime));
\* ... return pass?0:1;
MainRun ==
  /\ mn_pc = "run"
  /\ mn_did' = mn_did \cup {"run"}
  /\ mn_runs' = mn_runs + 1
  /\ \E again \in BOOLEAN :
       IF again /\ mn_runs + 1 < MaxRuns
       THEN UNCHANGED <<mn_pc, mn_exit>>
       ELSE \E pass \in BOOLEAN : MainReturn(IF pass THEN 0 ELSE 1)
  /\ UNCHANGED <<mn_flags, mn_files, mn_targets, mn_ok, mn_seen>>
  /\ UNCHANGED notMain

InitMain == MainInit /\ FBIdle /\ PMIdle /\ PubIdle /\ RefIdle /\ LexIdle /\ TyIdle /\ StrIdle /\ ConsIdle /\ HashIdle

NextMain ==
  \/ MainWakefiles \/ MainSources \/ MainParse \/ MainTargets
  \/ MainBind \/ MainAdd \/ MainRuntimeInit \/ MainRun

SpecMain == InitMain /\ [][NextMain]_vars

\* main is one thread and every call it makes before runtime.run returns: a
\* step that is possible is taken
SpecMainLive == SpecMain /\ WF_vars(NextMain)

\* ------------------------------------------------------------------------
\* Properties of the driver
\* ------------------------------------------------------------------------

\* the enumeration of wake files or of sources failed, a Lexer reported fail,
\* bind_refs returned null or sums_ok() was false
CompileFailed == mn_seen # {}

\* C19: once the enumeration of wake files or sources has failed, a Lexer has
\* reported fail, bind_refs has returned null or sums_ok() was false, main never
\* calls db.add_target, runtime.init or runtime.run, and it returns 1.
C19_NoEvaluationAfterFailure ==
  /\ [](CompileFailed => mn_did = {})
  /\ [](CompileFailed => mn_exit \in {-1, 1})
  /\ (CompileFailed ~> mn_exit = 1)

\* main returned 1 with --add-task given, after both enumerations and every
\* Lexer succeeded and bind_refs returned a tree, because sums_ok() was false
C19_Witness ==
  /\ mn_pc = "exit"
  /\ mn_exit = 1
  /\ mn_seen = {"sums_ok"}
  /\ mn_flags.add
  /\ mn_did = {}

\* ------------------------------------------------------------------------
\* Termination and row restoration of expand_patterns
\* ------------------------------------------------------------------------

\* the rows rebind_match hands to expand_patterns
PMRows ==
  BuildRows(pm_match, [patterns |-> <<Prototype(pm_match.nargs)>>, ok |-> TRUE,
                       exprs |-> <<>>, diag |-> <<>>], 0).patterns

\* expand_patterns has run, whatever it returned
PMRan == pm_pc \in {"uses", "done"} /\ pm_ok

\* the number of positions of a tree that name a constructor
RECURSIVE ConsNodes(_)
RECURSIVE ConsNodesFrom(_, _)
ConsNodes(t) == IF t.sum = NoSum THEN 0 ELSE 1 + ConsNodesFrom(t.children, 1)
ConsNodesFrom(children, i) ==
  IF i > Len(children) THEN 0
  ELSE ConsNodes(children[i]) + ConsNodesFrom(children, i + 1)

\* a has detail <= b: b names the constructors a names, at the same positions
RECURSIVE Detail(_, _)
Detail(a, b) ==
  \/ a.sum = NoSum
  \/ /\ a.sum = b.sum /\ a.cons = b.cons
     /\ Len(a.children) = Len(b.children)
     /\ \A i \in DOMAIN a.children : Detail(a.children[i], b.children[i])

\* the constructors the rows name where the prototype is not yet expanded
RECURSIVE UncoveredFrom(_, _)
UncoveredFrom(rows, k) ==
  IF k > Len(rows) THEN 0
  ELSE ConsNodes(rows[k].tree) - ConsNodes(rows[1].tree) + UncoveredFrom(rows, k + 1)
Uncovered(rows) == UncoveredFrom(rows, 2)

\* the measure of a row vector, and its (lexicographic) order
Measure(rows) == <<Uncovered(rows), Len(rows)>>
Less(m, n) == m[1] < n[1] \/ (m[1] = n[1] /\ m[2] < n[2])

\* C21: expand_patterns terminates: every recursive call either runs on rows
\* whose prototype is strictly more refined than the caller's, at the position
\* where the caller's prototype is a wildcard and the caller's second row names
\* a constructor (of the sum the prototype is expanded to), or runs on the
\* caller's rows without the second one (the guard case).  Either way the
\* measure (constructors of the rows the prototype has not reached, number of
\* rows) strictly decreases and is never negative, so that no call nests deeper
\* than the measure of the rows rebind_match handed in, and none is cut off.
C21_Termination ==
  PMRan =>
    /\ ~HasDiag("TooDeep")
    /\ \A k \in DOMAIN pm_calls :
         LET call == pm_calls[k]
             prototype == call.parent[1].tree
             refined == call.child[1].tree
         IN /\ call.kind \in {"member", "guard"}
            /\ call.kind = "member" =>
                 /\ get_expansion(prototype, call.path).sum = NoSum
                 /\ get_expansion(call.parent[2].tree, call.path).sum # NoSum
                 /\ get_expansion(refined, call.path).sum
                      = get_expansion(call.parent[2].tree, call.path).sum
                 /\ Detail(prototype, refined) /\ ~Detail(refined, prototype)
                 /\ Len(call.child) <= Len(call.parent)
            /\ call.kind = "guard" =>
                 /\ refined = prototype
                 /\ Len(call.child) = Len(call.parent) - 1
            /\ \A i \in 2..Len(call.child) : Detail(refined, call.child[i].tree)
            /\ Uncovered(call.child) >= 0
            /\ Less(Measure(call.child), Measure(call.parent))
            /\ call.depth - 1 <= Uncovered(PMRows) + Len(PMRows)

\* a match on a list (a recursive sum) whose compilation made a call of either
\* kind, one of them nested three deep
C21_Witness ==
  /\ PMRan /\ pm_out # NullExpr
  /\ \E k \in DOMAIN pm_calls : pm_calls[k].kind = "guard"
  /\ \E k \in DOMAIN pm_calls :
       /\ pm_calls[k].kind = "member" /\ pm_calls[k].depth >= 4
       /\ get_expansion(pm_calls[k].child[1].tree, pm_calls[k].path).sum = "List"

\* the same pattern: sum, variable and children agree, and so does the
\* constructor wherever a constructor is named (PatternTree::cons of a wildcard
\* is read by nobody: format, find_mismatch and the bucket loop test sum first)
RECURSIVE SamePattern(_, _)
SamePattern(a, b) ==
  /\ a.sum = b.sum /\ a.var = b.var
  /\ a.sum # NoSum => a.cons = b.cons
  /\ Len(a.children) = Len(b.children)
  /\ \A i \in DOMAIN a.children : SamePattern(a.children[i], b.children[i])

\* the row is the one rebind_match built, but for its use count (and, for the
\* prototype, the next-variable counter)
SameRow(now, then, k) ==
  /\ SamePattern(now.tree, then.tree)
  /\ now.guard = then.guard
  /\ now.uses >= then.uses
  /\ IF k = 1 THEN now.index >= then.index ELSE now.index = then.index

\* every row is back at its position
RowsRestored ==
  /\ Len(pm_patterns) = Len(PMRows)
  /\ \A k \in DOMAIN pm_patterns : SameRow(pm_patterns[k], PMRows[k], k)

\* every row handed to a recursive call has at least the detail of the prototype
RowsRefined ==
  \A k \in DOMAIN pm_calls :
    \A i \in 2..Len(pm_calls[k].child) :
      Detail(pm_calls[k].child[1].tree, pm_calls[k].child[i].tree)

\* rows moved into a bucket and never moved back: what std::move left behind
MovedRows == {k \in DOMAIN pm_patterns : pm_patterns[k].index \in {-1, -2}}

\* C22: after expand_patterns every row of the caller's vector is at its
\* original position with its original pattern (expanded wildcards are
\* wildcards again), only use counts and the prototype's next-variable counter
\* have grown, and every row had at least the detail of the prototype throughout.
\* Violated: this is so when expand_patterns returns a tree, but the two
\* "return nullptr" inside the member loop leave before the restore loop, and
\* the rows of the bucket stay moved-from with the markers -1 and -2.
C22_RowRestoration == PMRan => (RowsRestored /\ RowsRefined)

\* what does hold: the rows are restored whenever expand_patterns returns a tree
RestoredOnSuccess == (PMRan /\ PMExpanded) => (RowsRestored /\ RowsRefined)

\* a match rejected as non-exhaustive inside the member loop: the prototype and
\* an arm were moved into the bucket of a constructor and are not back
C22_Witness ==
  /\ PMRan /\ pm_out = NullExpr /\ HasDiag("NonExhaustive")
  /\ 1 \in MovedRows /\ pm_patterns[1].index = -1
  /\ \E k \in MovedRows : k > 1 /\ PMRows[k].tree.sum # NoSum
                          /\ pm_patterns[k].tree.children # PMRows[k].tree.children

\* ------------------------------------------------------------------------
\* Error accumulation in explore
\* ------------------------------------------------------------------------

\* the paths of the sub-expressions explore is handed, from the node at path
RECURSIVE TyNodes(_, _)
TyNodes(expr, path) ==
  {path} \cup
  IF expr = NullExpr THEN {}
  ELSE IF expr.type = "App"
  THEN TyNodes(expr.fn, path \o <<1>>) \cup TyNodes(expr.val, path \o <<2>>)
  ELSE IF expr.type = "Lambda" THEN TyNodes(expr.body, path \o <<1>>)
  ELSE IF expr.type = "DefBinding"
  THEN TyNodes(expr.body, path \o <<0>>)
       \cup UNION {TyNodes(expr.val[i], path \o <<i>>) : i \in DOMAIN expr.val}
       \cup UNION {TyNodes(expr.fun[i], path \o <<Len(expr.val) + i>>) :
                   i \in DOMAIN expr.fun}
  ELSE {}

\* the sub-expressions directly under a node
TyChildren(path) ==
  {c \in TyNodes(ty_out, <<>>) :
     Len(c) = Len(path) + 1 /\ SubSeq(c, 1, Len(path)) = path}

\* the returns of explore for a node
ReturnsOf(path) == {i \in DOMAIN ty_res.st.ret : ty_res.st.ret[i].node = path}

\* explore returned false for the node
Failed(path) == \E i \in ReturnsOf(path) : ~ty_res.st.ret[i].ok

\* C23: explore is called once for every sub-expression of the tree (both
\* sides of an App, the body of a Lambda, every value, every function and the
\* body of a DefBinding), whatever its earlier siblings returned, and it returns
\* true for a node only if it returned true for every sub-expression directly
\* under it and every unification the node asked for succeeded.
C23_ErrorAccumulation ==
  Explored =>
    /\ \A path \in TyNodes(ty_out, <<>>) : Cardinality(ReturnsOf(path)) = 1
    /\ \A r \in TyReturns :
         /\ r.node \in TyNodes(ty_out, <<>>)
         /\ r.ok =>
              /\ \A c \in TyChildren(r.node) : ~Failed(c)
              /\ \A i \in DOMAIN TyCalls : TyCalls[i].node = r.node => TyCalls[i].ok
    /\ ty_res.ok = (\A r \in TyReturns : r.node = <<>> => r.ok)

\* an App whose function failed and whose argument was explored all the same,
\* inside a function of a DefBinding whose body was explored after it, and a
\* later sibling that failed as well
C23_Witness ==
  /\ Explored /\ ~ty_res.ok
  /\ \E r \in TyReturns :
       /\ r.type = "App" /\ Failed(r.node \o <<1>>)
       /\ ReturnsOf(r.node \o <<2>>) # {}
       /\ Len(r.node) >= 2
  /\ \E b \in TyReturns :
       /\ b.type = "DefBinding"
       /\ \E c \in TyChildren(b.node) : c[Len(c)] > 0 /\ Failed(c)
       /\ ReturnsOf(b.node \o <<0>>) # {} /\ Failed(b.node \o <<0>>)

\* ------------------------------------------------------------------------
\* lex_str: string and character literals (src/src/symbol.re)
\* ------------------------------------------------------------------------

\* the enum of symbol.re
Tx == 128
T2 == 192
T3 == 224
T4 == 240
T5 == 248
Rune1 == 127
Rune2 == 2047
Rune3 == 65535
Rune4 == 2097151
Maskx == 63
Testx == 192

\* largest number of characters and escapes of a literal
MaxStr == 3

\* static_cast<char>(0xff)
CharFF == 255

\* c >> n*Bitx and c & Maskx, on unsigned values
Shr(c, n) == c \div (64 ^ n)
Low6(c) == c % 64

\* static char push_utf8(std::string &result, uint32_t c): the bytes pushed and
\* the byte returned
push_utf8(result, c) ==
  IF c <= Rune1 THEN [result |-> result, u |-> c]
  ELSE IF c <= Rune2
  THEN [result |-> result \o <<T2 + Shr(c, 1)>>, u |-> Tx + Low6(c)]
  ELSE IF c <= Rune3
  THEN [result |-> result \o <<T3 + Shr(c, 2), Tx + Low6(Shr(c, 1))>>,
        u |-> Tx + Low6(c)]
  ELSE IF c <= Rune4
  THEN [result |-> result \o <<T4 + Shr(c, 3), Tx + Low6(Shr(c, 2)),
                               Tx + Low6(Shr(c, 1))>>,
        u |-> Tx + Low6(c)]
  ELSE [result |-> result, u |-> CharFF]

\* result.c_str()[i - 1]: the bytes of the string and the terminating zero
CStr(result, i) == IF i <= Len(result) THEN result[i] ELSE 0

\* (static_cast<uint8_t>(str[k]) & Testx) != Tx
NotContinuation(b) == (b \div 64) * 64 # Tx

\* static int utf8_size(const char *str), str = result.c_str() + i - 1
utf8_size(result, i) ==
  LET c == CStr(result, i)
  IN IF c < Tx THEN 1
     ELSE IF c < T2 THEN -1
     ELSE IF NotContinuation(CStr(result, i + 1)) THEN -1
     ELSE IF c < T3 THEN 2
     ELSE IF NotContinuation(CStr(result, i + 2)) THEN -1
     ELSE IF c < T4 THEN 3
     ELSE IF NotContinuation(CStr(result, i + 3)) THEN -1
     ELSE IF c < T5 THEN 4
     ELSE -1

\* for (const char *c = result.c_str(); *c; c += code)
ConfirmEnd(result, c) == CStr(result, c) = 0

\* the two quotes, and the bytes a literal of the model holds in the file
Quotes == {34, 39}
RawBytes == Quotes \cup {0, 65, 128, 192, 195, 226, 240, 248, 255}

\* the values lex_oct and lex_hex read from the escapes of the model: \0, \101,
\* \xe9, €, \ud800, \U0001f600, \U00110000, \U00200000
EscapeValues == {0, 65, 233, 8364, 55296, 128512, 1114112, 2097152}

\* what re2c matches at in.cur: a byte other than newline and backslash, a
\* numeric escape, or something no rule but * matches (a newline, a backslash
\* followed by no escape)
StrItems ==
  {[rule |-> "byte", v |-> b] : b \in RawBytes}
  \cup {[rule |-> "escape", v |-> c] : c \in EscapeValues}
  \cup {[rule |-> "*", v |-> 10]}

\* lex_top saw ' or " and calls lex_str(in, in.cur[-1], out)
StrInit ==
  \E q \in Quotes : \E n \in 0..MaxStr : \E items \in [1..n -> StrItems] :
    \E closed \in BOOLEAN :
      /\ str_q = q
      /\ str_in = items \o (IF closed THEN <<[rule |-> "byte", v |-> q]>> ELSE <<>>)
      /\ str_u = q
      /\ str_result = <<>>
      /\ str_c = 0
      /\ str_tok = ""
      /\ str_pc = "scan"

\* return mkSym2(ok ? LITERAL : ERROR, ...)
StrReturn(ok) ==
  /\ str_tok' = IF ok THEN "LITERAL" ELSE "ERROR"
  /\ str_pc' = "done"

\* one round of  for (char u = q;; result.push_back(u)) { ... }
StrScan ==
  /\ str_pc = "scan"
  /\ IF str_u = CharFF \/ str_in = <<>> \/ Head(str_in).rule = "*"
     THEN \* u == 0xff; in.fill fails at the end of the file; the rule *
          /\ StrReturn(FALSE)
          /\ UNCHANGED <<str_in, str_u, str_result, str_c>>
     ELSE LET item == Head(str_in)
          IN /\ str_in' = Tail(str_in)
             /\ IF item.rule = "byte"
                THEN IF item.v = str_q
                     THEN /\ str_pc' = "confirm"
                          /\ str_c' = 1
                          /\ UNCHANGED <<str_u, str_result, str_tok>>
                     ELSE /\ str_u' = item.v
                          /\ str_result' = Append(str_result, item.v)
                          /\ UNCHANGED <<str_c, str_tok, str_pc>>
                ELSE LET r == push_utf8(str_result, item.v)
                     IN /\ str_u' = r.u
                        /\ str_result' = Append(r.result, r.u)
                        /\ UNCHANGED <<str_c, str_tok, str_pc>>
  /\ UNCHANGED str_q
  /\ UNCHANGED notStr

\* one round of the loop that confirms the string is UTF-8
StrConfirm ==
  /\ str_pc = "confirm"
  /\ IF ConfirmEnd(str_result, str_c)
     THEN StrReturn(TRUE) /\ UNCHANGED str_c
     ELSE LET code == utf8_size(str_result, str_c)
          IN IF code = -1
             THEN StrReturn(FALSE) /\ UNCHANGED str_c
             ELSE /\ str_c' = str_c + code
                  /\ UNCHANGED <<str_tok, str_pc>>
  /\ UNCHANGED <<str_q, str_in, str_u, str_result>>
  /\ UNCHANGED notStr

InitStr ==
  StrInit /\ FBIdle /\ PMIdle /\ PubIdle /\ RefIdle /\ LexIdle /\ TyIdle /\ MainIdle
  /\ ConsIdle /\ HashIdle

NextStr == StrScan \/ StrConfirm

SpecStr == InitStr /\ [][NextStr]_vars

\* ------------------------------------------------------------------------
\* Properties of lex_str
\* ------------------------------------------------------------------------

\* a continuation byte 10xxxxxx within the range lo..hi
Cont(b, lo, hi) == b >= lo /\ b <= hi

\* the length of the well-formed UTF-8 sequence that starts at byte i of the
\* string (Unicode, table 3-7: no overlong forms, no surrogates, nothing above
\* U+10FFFF), 0 if none starts there
WellFormedAt(s, i) ==
  LET b(k) == IF i + k <= Len(s) THEN s[i + k] ELSE -1
  IN IF b(0) <= 127 THEN 1
     ELSE IF b(0) >= 194 /\ b(0) <= 223 /\ Cont(b(1), 128, 191) THEN 2
     ELSE IF b(0) = 224 /\ Cont(b(1), 160, 191) /\ Cont(b(2), 128, 191) THEN 3
     ELSE IF b(0) \in (225..236) \cup {238, 239}
             /\ Cont(b(1), 128, 191) /\ Cont(b(2), 128, 191) THEN 3
     ELSE IF b(0) = 237 /\ Cont(b(1), 128, 159) /\ Cont(b(2), 128, 191) THEN 3
     ELSE IF b(0) = 240 /\ Cont(b(1), 144, 191) /\ Cont(b(2), 128, 191)
             /\ Cont(b(3), 128, 191) THEN 4
     ELSE IF b(0) \in 241..243 /\ Cont(b(1), 128, 191) /\ Cont(b(2), 128, 191)
             /\ Cont(b(3), 128, 191) THEN 4
     ELSE IF b(0) = 244 /\ Cont(b(1), 128, 143) /\ Cont(b(2), 128, 191)
             /\ Cont(b(3), 128, 191) THEN 4
     ELSE 0

\* the byte sequence is valid UTF-8 from byte i on
RECURSIVE ValidUTF8From(_, _)
ValidUTF8From(s, i) ==
  IF i > Len(s) THEN TRUE
  ELSE LET n == WellFormedAt(s, i)
       IN n > 0 /\ ValidUTF8From(s, i + n)
ValidUTF8(s) == ValidUTF8From(s, 1)

\* the bytes pass the test lex_str applies, from byte i on: every lead byte is
\* followed by as many continuation bytes as it announces
RECURSIVE SizedFrom(_, _)
SizedFrom(s, i) ==
  IF i > Len(s) THEN TRUE
  ELSE LET n == utf8_size(s, i)
       IN n > 0 /\ SizedFrom(s, i + n)

\* the bytes before the first zero byte
RECURSIVE UpToZero(_)
UpToZero(s) ==
  IF s = <<>> \/ Head(s) = 0 THEN <<>> ELSE <<Head(s)>> \o UpToZero(Tail(s))

\* lex_str went through the whole literal, up to the closing quote
StrClosed == str_pc = "done" /\ str_c >= 1

\* C24: lex_str accepts a literal (LITERAL) only if all of its decoded bytes
\* are valid UTF-8, and a closed literal whose decoded bytes hold an invalid
\* sequence anywhere, also behind a zero byte, is an ERROR.
\* Violated: the confirming loop stops at the first zero byte of the string.
C24_LiteralIsUTF8 ==
  /\ str_tok = "LITERAL" => ValidUTF8(str_result)
  /\ (StrClosed /\ ~ValidUTF8(str_result)) => str_tok = "ERROR"

\* what the loop does establish: the bytes before the first zero byte pass the
\* test of utf8_size
ConfirmedToZero ==
  /\ str_tok = "LITERAL" => SizedFrom(UpToZero(str_result), 1)
  /\ (StrClosed /\ ~SizedFrom(UpToZero(str_result), 1)) => str_tok = "ERROR"

\* the literal "\0" followed by the lone continuation byte 0x80: utf8_size
\* rejects that byte (and the same byte without the \0 is an ERROR), and the
\* literal is accepted
C24_Witness ==
  /\ str_tok = "LITERAL"
  /\ str_result = <<0, 128>>
  /\ utf8_size(str_result, 2) = -1
  /\ ~ValidUTF8(str_result)

\* ------------------------------------------------------------------------
\* The cycle report of fracture_binding
\* ------------------------------------------------------------------------

\* the definitions the walk of lines 125-129 stands on: rv.v, p[rv.v], ...
\* (k steps; -1 once an unset predecessor was met)
RECURSIVE PredChain(_, _)
PredChain(j, k) ==
  IF k = 0 THEN <<j>>
  ELSE <<j>> \o (IF j = -1 THEN <<>> ELSE PredChain(fb_p[j], k - 1))

\* following p from j comes back to j
RECURSIVE OnPredCycle(_, _, _)
OnPredCycle(i, j, fuel) ==
  /\ fuel > 0 /\ i # -1
  /\ fb_p[i] = j \/ OnPredCycle(fb_p[i], j, fuel - 1)

\* C25: when fracture_binding finds a level >= N, every definition on the
\* N-step walk along p from the vertex it stopped at has a predecessor (no -1
\* is read or reached), the walk ends on a definition that lies on a cycle of
\* p, the print loop ends after listing the definitions of that cycle once
\* each, each printed definition is referenced by the one printed after it
\* (the first by the last), and the pass fails.
C25_CycleReport ==
  fb_cycle.detected =>
    /\ fb_pc = "done" /\ fb_out = NullExpr
    /\ fb_cycle.from \in DefIds
    /\ LET chain == PredChain(fb_cycle.from, NumDefs)
       IN /\ Len(chain) = NumDefs + 1
          /\ \A k \in DOMAIN chain : chain[k] \in DefIds /\ fb_p[chain[k]] # -1
          /\ chain[Len(chain)] = fb_cycle.j
    /\ fb_cycle.j \in DefIds
    /\ OnPredCycle(fb_cycle.j, fb_cycle.j, NumDefs)
    /\ fb_cycle.closed
    /\ LET names == fb_cycle.names
       IN /\ names # <<>> /\ names[1] = fb_cycle.j
          /\ \A k, l \in DOMAIN names : k # l => names[k] # names[l]
          /\ SeqRange(names) = {i \in DefIds : OnPredCycle(fb_cycle.j, i, NumDefs)}
          /\ \A k \in DOMAIN names :
               LET next == names[IF k = Len(names) THEN 1 ELSE k + 1]
               IN /\ next = fb_p[names[k]]
                  /\ names[k] \in fb_defs[next].edges

\* a cycle of two definitions reported from a vertex outside of the cycle,
\* so that the walk has to enter it
C25_Witness ==
  /\ fb_cycle.detected
  /\ Len(fb_cycle.names) >= 2
  /\ fb_cycle.from \notin SeqRange(fb_cycle.names)
  /\ fb_d = [i \in DefIds |-> 0]

\* ------------------------------------------------------------------------
\* The order in which SCC emits the components
\* ------------------------------------------------------------------------

\* C26: in every DefBinding fracture_binding has built, when the function
\* fun[i] references the function fun[j] (of the same binding, so of the same
\* level) and the two are in different components, then j < scc[i]: the
\* component of fun[j] was emitted before that of fun[i].  With the watermark
\* explore uses in fun[i], len(val)+scc[i], the index of fun[j] in the binding
\* is generalized, and fun[j] comes before fun[i] in the loop over the
\* functions, so its body has been inferred when fun[i] looks it up.
\* (fun is counted from 0 in the source and from 1 here.)
C26_EmissionOrder ==
  \A k \in DOMAIN FBBuilt :
    LET b == FBBuilt[k]
        nv == Len(b.val)
    IN \A i \in DOMAIN b.fun : \A j \in DOMAIN b.fun :
         (b.fun[j] \in fb_defs[b.fun[i]].edges /\ b.scc[i] # b.scc[j]) =>
           /\ j - 1 < b.scc[i]
           /\ b.scc[j] < b.scc[i]
           /\ IsGeneralized(nv + j - 1, nv + b.scc[i])
           /\ j < i

\* a finished DefBinding of three functions in three components, where the
\* function with the lowest name references the other two and is emitted last
C26_Witness ==
  /\ fb_pc = "done"
  /\ \E k \in DOMAIN FBBuilt :
       LET b == FBBuilt[k]
       IN /\ Len(b.fun) = 3 /\ b.scc = <<0, 1, 2>>
          /\ b.fun[3] = 0
          /\ {b.fun[1], b.fun[2]} \subseteq fb_defs[b.fun[3]].edges

\* ------------------------------------------------------------------------
\* cons_lookup and rebind_ref on one chain of scopes
\* ------------------------------------------------------------------------

\* largest number of DefMap scopes between the match and the Top
MaxInner == 1

\* what a scope can hold under a key: a constructor without arguments, one
\* with two (under its lambdas), a definition that is no constructor, and a
\* definition whose expression is null (moved out while it is fractured)
ConsExprs ==
  {Construct("Boolean", 0), Construct("List", 0),
   Lambda("head", Lambda("tail", Construct("List", 1))),
   Literal(0), NullExpr}

\* the definitions of one scope of the model: at most one under the bare name
\* X and, in a file (prefix >= 0), at most one under the file-local key
ScopeEntries(prefix) ==
  LET bare == {<<>>} \cup {<<[name |-> "X", expr |-> e]>> : e \in ConsExprs}
      local == {<<>>} \cup
               (IF prefix >= 0
                THEN {<<[name |-> FileLocal(prefix, "X"), expr |-> e]>> :
                        e \in ConsExprs}
                ELSE {})
  IN {b \o l : b \in bare, l \in local}

\* the scope as cons_lookup reads it: index and defs
ConsScope(prefix, entries) ==
  [prefix |-> prefix,
   index |-> [n \in {entries[i].name : i \in DOMAIN entries} |->
                (CHOOSE i \in DOMAIN entries : entries[i].name = n) - 1],
   defs |-> entries]

\* the same scope as a ResolveBinding for rebind_ref; the match is in the body
\* of the innermost scope, so no definition is current
RefScope(scope) ==
  [current_index |-> -1, prefix |-> scope.prefix, depth |-> 0,
   index |-> scope.index,
   defs |-> [i \in 0..(Len(scope.defs) - 1) |->
               ResolveDef(scope.defs[i + 1].name, scope.defs[i + 1].expr)]]

ConsInit ==
  \E n \in 0..MaxInner :
    \E inner \in [1..n -> ScopeEntries(-1)] : \E top \in ScopeEntries(0) :
      \E args \in {<<>>, <<Leaf("_"), Leaf("_")>>} :
        /\ cl_scopes = [i \in 1..n |-> ConsScope(-1, inner[i])]
                         \o <<ConsScope(0, top)>>
        /\ cl_ast = [name |-> "X", args |-> args]
        /\ cl_out = <<>>
        /\ cl_ref = <<>>
        /\ cl_pc = "pattern"

\* patterns.back().tree = cons_lookup(binding, expr, guard, p.pattern, &multiarg)
ConsLookup ==
  /\ cl_pc = "pattern"
  /\ cl_out' = cons_lookup(cl_scopes, cl_ast, 1)
  /\ cl_pc' = "ref"
  /\ UNCHANGED <<cl_scopes, cl_ast, cl_ref>>
  /\ UNCHANGED notCons

\* fracture of VarRef(X) in the same scope: rebind_ref(binding, ref->name)
ConsRef ==
  /\ cl_pc = "ref"
  /\ cl_ref' = rebind_ref([i \in DOMAIN cl_scopes |-> RefScope(cl_scopes[i])],
                          cl_ast.name, 1)
  /\ cl_pc' = "done"
  /\ UNCHANGED <<cl_scopes, cl_ast, cl_out>>
  /\ UNCHANGED notCons

InitCons ==
  /\ ConsInit /\ FBIdle /\ PMIdle /\ PubIdle /\ RefIdle /\ LexIdle /\ TyIdle
  /\ MainIdle /\ StrIdle /\ HashIdle

NextCons == ConsLookup \/ ConsRef

SpecCons == InitCons /\ [][NextCons]_vars

\* the definition the VarRef resolved to, under its lambdas
ResolvedDef ==
  LET scope == cl_scopes[cl_ref.scope]
      expr == scope.defs[scope.index[cl_ref.name] + 1].expr
  IN IF expr = NullExpr THEN expr ELSE StripLambdas(expr)

ConsDiag(kind) == \E k \in DOMAIN cl_out.diag : cl_out.diag[k].kind = kind

\* C27: the pattern X adopts the sum and the constructor of the definition a
\* VarRef to X resolves to at the same place (the nearest scope that defines X,
\* its file-local key first): if that definition is a constructor taking as
\* many arguments as the pattern has, the tree names it; if it takes another
\* number, that is reported; and if X is not defined, or its nearest
\* definition is no constructor, the constructor is reported as not found.
\* Violated: the loop of cons_lookup goes on to the outer scopes and the
\* outermost constructor named X wins.
C27_LexicalConstructor ==
  cl_pc = "done" =>
    IF cl_ref.found /\ ResolvedDef # NullExpr /\ ResolvedDef.type = "Construct"
    THEN IF SumMembers(ResolvedDef.sum, 1)[ResolvedDef.cons + 1].nargs
              = Len(cl_ast.args)
         THEN /\ cl_out.tree.sum = ResolvedDef.sum
              /\ cl_out.tree.cons = ResolvedDef.cons
              /\ cl_out.diag = <<>>
         ELSE cl_out.tree.sum = NoSum /\ ConsDiag("WrongParameterCount")
    ELSE cl_out.tree.sum = NoSum /\ ConsDiag("ConstructorNotFound")

\* what does hold: the pattern adopts the constructor of the outermost scope
\* that defines X as one
RECURSIVE OutermostCons(_)
OutermostCons(k) ==
  IF k = 0 THEN NullExpr
  ELSE LET it == ScopeFind(cl_scopes[k], cl_ast.name)
           expr == IF it = -1 THEN NullExpr ELSE cl_scopes[k].defs[it + 1].expr
           body == IF expr = NullExpr THEN expr ELSE StripLambdas(expr)
       IN IF body # NullExpr /\ body.type = "Construct" THEN body
          ELSE OutermostCons(k - 1)

OutermostWins ==
  cl_pc = "done" =>
    LET c == OutermostCons(Len(cl_scopes))
    IN IF c = NullExpr
       THEN cl_out.tree.sum = NoSum /\ ConsDiag("ConstructorNotFound")
       ELSE IF SumMembers(c.sum, 1)[c.cons + 1].nargs = Len(cl_ast.args)
       THEN cl_out.tree.sum = c.sum /\ cl_out.tree.cons = c.cons
       ELSE cl_out.tree.sum = NoSum /\ ConsDiag("WrongParameterCount")

\* X is the constructor True of Boolean in the DefMap around the match and
\* the constructor Nil of List in the file: the VarRef resolves to the inner
\* definition, the pattern is compiled as Nil of List, and nothing is printed
C27_Witness ==
  /\ cl_pc = "done"
  /\ Len(cl_scopes) = 2
  /\ cl_ref.found /\ cl_ref.scope = 1
  /\ ResolvedDef = Construct("Boolean", 0)
  /\ cl_out.tree.sum = "List" /\ cl_out.tree.cons = 0
  /\ cl_out.diag = <<>>

\* ------------------------------------------------------------------------
\* The stream of layout tokens
\* ------------------------------------------------------------------------

\* how many tokens of a type consume has produced
LexCount(type) == Cardinality({i \in DOMAIN lex_out : lex_out[i].type = type})

\* the types of the tokens of a sequence that satisfy a test
RECURSIVE TypesBut(_, _)
TypesBut(s, skipped) ==
  IF s = <<>> THEN <<>>
  ELSE (IF Head(s).type \in skipped THEN <<>> ELSE <<Head(s).type>>)
       \o TypesBut(Tail(s), skipped)

\* the tokens of the file lex_top has returned and consume has passed on: the
\* newline consume reads is passed on (as EOL) once the DEDENTs due are out
LexPassed ==
  SubSeq(lex_file, 1,
         Len(lex_file) - Len(lex_input) - (IF lex_eol THEN 1 ELSE 0))

\* C28: after any number of calls of consume the indentation stack is not
\* empty, has 0 at the bottom and is strictly increasing; the INDENTs produced
\* minus the DEDENTs produced are the length of the stack minus 1; and every
\* newline lex_top returns gives zero or more DEDENTs, then exactly one EOL,
\* then at most one INDENT, before the next token of the file: a DEDENT is
\* followed by a DEDENT or an EOL, an INDENT follows an EOL and nothing but an
\* EOL comes before the first DEDENT of a run, and without INDENT and DEDENT
\* the tokens produced are the tokens of the file, newline for EOL.
C28_LayoutStream ==
  lex_pc # "idle" =>
    /\ lex_tabs # <<>> /\ lex_tabs[1] = 0
    /\ \A i \in 1..(Len(lex_tabs) - 1) : lex_tabs[i] < lex_tabs[i + 1]
    /\ LexCount("INDENT") - LexCount("DEDENT") = Len(lex_tabs) - 1
    /\ \A i \in DOMAIN lex_out :
         LET t == lex_out[i].type
             prev == IF i = 1 THEN "none" ELSE lex_out[i - 1].type
         IN /\ t = "DEDENT" => prev \notin {"none", "EOL", "INDENT"}
            /\ t = "EOL" => prev \notin {"EOL", "INDENT"}
            /\ t = "INDENT" => prev = "EOL"
            /\ prev = "DEDENT" => t \in {"DEDENT", "EOL"}
    /\ lex_eol => (lex_out # <<>> /\ lex_out[Len(lex_out)].type = "DEDENT")
    /\ TypesBut(lex_out, {"INDENT", "DEDENT", "END"}) = TypesBut(LexPassed, {})

\* a file whose third line closes a block and opens a shallower one: between
\* two tokens of the file come one DEDENT, one EOL and one INDENT
C28_Witness ==
  /\ Len(lex_out) >= 7
  /\ \E i \in DOMAIN lex_out :
       /\ i + 4 <= Len(lex_out)
       /\ lex_out[i].type = "ID" /\ lex_out[i].before = <<0, 2>>
       /\ lex_out[i + 1].type = "DEDENT"
       /\ lex_out[i + 2].type = "EOL" /\ lex_out[i + 3].type = "INDENT"
       /\ lex_out[i + 4].type = "ID" /\ lex_out[i + 4].after = <<0, 1>>

\* ------------------------------------------------------------------------
\* bind_refs on nested definition blocks that fail to fracture
\* ------------------------------------------------------------------------

\* what the one definition of a nested block is: a literal, a reference to
\* itself (a value cycle), a match that compiles or a match that does not
NestValues(name) ==
  {Literal(1), VarRef(name), Match(Literal(1)), Match(NullExpr)}

\* def name = value followed by the body; ast: FLAG_AST is set
NestDef(name, value, body, ast) ==
  DefMap(<<[name |-> name, body |-> value]>>, <<>>, body, ast)

\* the innermost blocks
NestInner ==
  {NestDef("x", v, VarRef("x"), ast) : v \in NestValues("x"), ast \in BOOLEAN}

\* where a block stands: alone, under a lambda, as an argument, or as the
\* definition or the body of another block
NestPlaced ==
  NestInner
  \cup {Lambda("w", d) : d \in NestInner}
  \cup {App(Lambda("w", VarRef("w")), d) : d \in NestInner}
  \cup {NestDef("z", d, VarRef("z"), ast) : d \in NestInner, ast \in BOOLEAN}
  \cup {NestDef("z", Literal(0), d, ast) : d \in NestInner, ast \in BOOLEAN}

\* one file that defines y, with a block in the definition or in the body
NestInit ==
  \E by \in NestPlaced \cup {Literal(0)} :
    \E body \in NestInner \cup {VarRef("y")} :
      /\ ref_top = Top(<<DefMap(<<[name |-> "y", body |-> by]>>, <<>>,
                                NullExpr, FALSE)>>,
                       [n \in {} |-> 0], body)
      /\ ref_out = NullExpr
      /\ ref_st = <<>>
      /\ ref_unbound = <<>>
      /\ ref_pc = "start"

InitNest ==
  /\ NestInit /\ FBIdle /\ PMIdle /\ PubIdle /\ LexIdle /\ TyIdle /\ MainIdle
  /\ StrIdle /\ ConsIdle /\ HashIdle

SpecNest == InitNest /\ [][NextRef]_vars

\* ------------------------------------------------------------------------
\* Properties of failure propagation
\* ------------------------------------------------------------------------

\* the expression fractures to null: a match rebind_match gave up on, or a
\* block one of whose definitions is null or refers to itself as a value
RECURSIVE FracturesToNull(_)
FracturesToNull(expr) ==
  IF expr = NullExpr THEN FALSE
  ELSE IF expr.type = "Match"
  THEN expr.compiled = NullExpr \/ FracturesToNull(expr.compiled)
  ELSE IF expr.type = "DefMap"
  THEN \E i \in DOMAIN expr.map :
         \/ FracturesToNull(expr.map[i].body)
         \/ expr.map[i].body = VarRef(expr.map[i].name)
  ELSE FALSE

\* the blocks of an expression that fracture reaches
RECURSIVE DefMapsOf(_)
DefMapsOf(expr) ==
  IF expr = NullExpr THEN {}
  ELSE IF expr.type = "Match" THEN DefMapsOf(expr.compiled)
  ELSE IF expr.type = "Lambda" THEN DefMapsOf(expr.body)
  ELSE IF expr.type = "App" THEN DefMapsOf(expr.fn) \cup DefMapsOf(expr.val)
  ELSE IF expr.type = "DefMap"
  THEN {expr} \cup DefMapsOf(expr.body)
       \cup UNION {DefMapsOf(expr.map[i].body) : i \in DOMAIN expr.map}
  ELSE {}

\* the nested blocks of the program that fail to fracture
NestedDefMaps ==
  DefMapsOf(ref_top.body)
  \cup UNION {UNION {DefMapsOf(ref_top.defmaps[f].map[i].body) :
                       i \in DOMAIN ref_top.defmaps[f].map} :
                f \in DOMAIN ref_top.defmaps}
FailedDefMaps ==
  IF ref_top = NullExpr THEN {} ELSE {d \in NestedDefMaps : FracturesToNull(d)}

\* C29: when a nested DefMap fails to fracture (a value cycle, or a definition
\* that failed pattern compilation and is null), fracture dereferences no null
\* pointer, whatever flags the DefMap carries, and bind_refs returns null.
C29_FailurePropagation ==
  FailedDefMaps # {} =>
    /\ ref_pc # "crashed"
    /\ ref_pc = "done" => ref_out = NullExpr

\* the same for the blocks that do not carry FLAG_AST
FailureWithoutFlag ==
  (FailedDefMaps # {} /\ \A d \in FailedDefMaps : ~d.ast) =>
    /\ ref_pc # "crashed"
    /\ ref_pc = "done" => ref_out = NullExpr

\* a block with FLAG_AST whose definition is a value cycle stood under a lambda:
\* out->flags |= FLAG_AST was executed on the null fracture_binding returned
C29_Witness ==
  /\ ref_pc = "crashed"
  /\ ref_st.diag # <<>>
  /\ \E d \in FailedDefMaps :
       /\ d.ast
       /\ ref_top.defmaps[1].map[1].body = Lambda("w", d)

\* ------------------------------------------------------------------------
\* Binding::hash: the hash code of a binding and the Hashers that wait for it
\* ------------------------------------------------------------------------

\* longest chain of bindings (binding->next)
MaxBindings == 2
\* most arguments of a binding
MaxArgs == 2
\* most Hashers the program hands to Binding::hash
MaxHashers == 3

\* Hash hashcode as the constructor leaves it: `if (binding->hashcode)` is false
NoHash == 0
\* the seed of HASH
Seed == 42
\* the hash codes of the model are the numbers 1..HashRange
HashRange == 97

\* HASH(codes.data(), codes.size()*8, 42, binding->hashcode): a code that
\* depends on every word and on the order, and that is never NoHash
RECURSIVE MixCodes(_, _)
MixCodes(codes, h) ==
  IF codes = <<>> THEN h
  ELSE MixCodes(Tail(codes), (31 * h + Head(codes)) % HashRange)
HASH(codes) == 1 + MixCodes(codes, Seed)

\* hash.push(codes)
Push(codes, hash) == Append(codes, hash)

\* a Future without a value; the values of the model: one whose hash() calls
\* the Hasher before it returns and one that calls it later
NoValue == [code |-> NoHash, sync |-> FALSE]
HashValues == {[code |-> 7, sync |-> TRUE], [code |-> 8, sync |-> FALSE]}

\* the Hasher the program hands in, ParentHasher, FutureHasher
ClientHasher(id) == [kind |-> "Client", id |-> id]
ParentHasher(binding) == [kind |-> "Parent", binding |-> binding]
FutureHasher(binding, codes, arg) ==
  [kind |-> "Future", binding |-> binding, codes |-> codes, arg |-> arg]

\* Binding::Binding(...): future(new Future[nargs_]), hasher(), hashcode()
Binding(next, nargs) ==
  [next |-> next, nargs |-> nargs, hashcode |-> NoHash, hasher |-> <<>>,
   future |-> [a \in 1..nargs |-> [value |-> NoValue, waiting |-> <<>>]]]

\* binding->future[arg].hash(new FutureHasher(std::move(binding), ...)): the
\* order of the object expression and the argument is unspecified, and with
\* the argument first binding is null when binding->future is read
MovedBeforeUse(order) == order = "argument"

RECURSIVE Receive(_, _, _)
RECURSIVE ReceiveAll(_, _, _)
RECURSIVE chain(_, _, _, _)
RECURSIVE BindingHash(_, _, _)

\* value->hash(std::move(hasher))
ValueHash(s, value, hasher) ==
  IF value.sync THEN Receive(s, hasher, value.code)
  ELSE [s EXCEPT !.pend = Append(@, [hasher |-> hasher, hash |-> value.code])]

\* void Future::hash(std::unique_ptr<Hasher> hasher), on binding->future[arg]
FutureHash(s, b, arg, hasher) ==
  LET f == s.bind[b].future[arg + 1]
  IN IF f.value # NoValue THEN ValueHash(s, f.value, hasher)
     ELSE [s EXCEPT !.bind[b].future[arg + 1].waiting = <<hasher>> \o @]

\* for (iter = std::move(binding->hasher); iter; iter = std::move(next))
\*   iter->receive(binding->hashcode);
ReceiveAll(s, list, b) ==
  IF list = <<>> THEN s
  ELSE ReceiveAll(Receive(s, Head(list), s.bind[b].hashcode), Tail(list), b)

\* static void FutureHasher::chain(binding, codes, arg)
chain(s, b, codes, arg) ==
  IF arg = s.bind[b].nargs
  THEN LET list == s.bind[b].hasher
           s1 == [s EXCEPT !.bind[b].hashcode = HASH(codes),
                           !.bind[b].hasher = <<>>]
       IN [ReceiveAll(s1, list, b) EXCEPT !.bind[b].hasher = <<>>]
  ELSE IF MovedBeforeUse(s.order) THEN [s EXCEPT !.crash = TRUE]
  ELSE FutureHash(s, b, arg, FutureHasher(b, codes, arg))

\* void receive(Hash hash) of the three Hashers
Receive(s, hasher, hash) ==
  IF hasher.kind = "Client"
  THEN [s EXCEPT !.recv[hasher.id] = Append(@, hash)]
  ELSE IF hasher.kind = "Parent"
  THEN chain(s, hasher.binding, Push(<<>>, hash), 0)
  ELSE chain(s, hasher.binding, Push(hasher.codes, hash), hasher.arg + 1)

\* the Hasher goes to the front of the list of the binding
QueueHasher(binding, hasher) == [binding EXCEPT !.hasher = <<hasher>> \o @]

\* void Binding::hash(const std::shared_ptr<Binding> &binding, hasher)
BindingHash(s, b, hasher) ==
  IF s.bind[b].hashcode # NoHash
  THEN Receive(s, hasher, s.bind[b].hashcode)
  ELSE LET s1 == IF s.bind[b].hasher # <<>> THEN s
                 ELSE IF s.bind[b].next # 0
                 THEN BindingHash(s, s.bind[b].next, ParentHasher(b))
                 ELSE chain(s, b, <<>>, 0)
       IN [s1 EXCEPT !.bind[b] = QueueHasher(@, hasher)]

HashState ==
  [bind |-> hs_bind, recv |-> hs_recv, pend |-> hs_pend, order |-> hs_order,
   crash |-> FALSE]

\* what a call leaves; a null pointer dereferenced ends the run
HashSet(s) ==
  /\ hs_bind' = s.bind
  /\ hs_recv' = s.recv
  /\ hs_pend' = s.pend
  /\ hs_pc' = IF s.crash THEN "crashed" ELSE "run"

\* a chain of bindings, each the next of the one after it, none hashed
HashInit ==
  /\ \E n \in 1..MaxBindings :
       \E nargs \in [1..n -> 0..MaxArgs] :
         hs_bind = [b \in 1..n |-> Binding(b - 1, nargs[b])]
  /\ hs_order \in {"object", "argument"}
  /\ hs_recv = <<>>
  /\ hs_for = <<>>
  /\ hs_queue = <<>>
  /\ hs_pend = <<>>
  /\ hs_pc = "run"

\* the program calls Binding::hash(binding, hasher) with a Hasher of its own
HSCall ==
  /\ hs_pc = "run"
  /\ Len(hs_for) < MaxHashers
  /\ \E b \in DOMAIN hs_bind :
       /\ hs_for' = Append(hs_for, b)
       /\ HashSet(BindingHash([HashState EXCEPT !.recv = Append(@, <<>>)], b,
                              ClientHasher(Len(hs_for) + 1)))
  /\ UNCHANGED <<hs_queue, hs_order>>
  /\ UNCHANGED notHash

\* void Completer::receive(queue, value) for binding->future[arg]: the value is
\* stored and every waiting receiver is handed to Receiver::receiveC
HSComplete ==
  /\ hs_pc = "run"
  /\ \E b \in DOMAIN hs_bind : \E a \in DOMAIN hs_bind[b].future :
       \E value \in HashValues :
         /\ hs_bind[b].future[a].value = NoValue
         /\ hs_bind' = [hs_bind EXCEPT ![b].future[a] =
                          [value |-> value, waiting |-> <<>>]]
         /\ hs_queue' = hs_queue \o
              [i \in DOMAIN hs_bind[b].future[a].waiting |->
                 [hasher |-> hs_bind[b].future[a].waiting[i], value |-> value]]
  /\ UNCHANGED <<hs_recv, hs_for, hs_pend, hs_order, hs_pc>>
  /\ UNCHANGED notHash

\* void FutureReceiver::receive(queue, value): value->hash(std::move(hasher))
HSReceive ==
  /\ hs_pc = "run"
  /\ hs_queue # <<>>
  /\ hs_queue' = Tail(hs_queue)
  /\ HashSet(ValueHash(HashState, Head(hs_queue).value, Head(hs_queue).hasher))
  /\ UNCHANGED <<hs_for, hs_order>>
  /\ UNCHANGED notHash

\* a value whose hash() kept the Hasher calls hasher->receive(hash)
HSValueHashed ==
  /\ hs_pc = "run"
  /\ \E i \in DOMAIN hs_pend :
       LET rest == [j \in 1..(Len(hs_pend) - 1) |->
                      IF j < i THEN hs_pend[j] ELSE hs_pend[j + 1]]
       IN HashSet(Receive([HashState EXCEPT !.pend = rest],
                          hs_pend[i].hasher, hs_pend[i].hash))
  /\ UNCHANGED <<hs_for, hs_queue, hs_order>>
  /\ UNCHANGED notHash

InitHash ==
  /\ HashInit /\ FBIdle /\ PMIdle /\ PubIdle /\ RefIdle /\ LexIdle /\ TyIdle
  /\ MainIdle /\ StrIdle /\ ConsIdle

NextHash == HSCall \/ HSComplete \/ HSReceive \/ HSValueHashed

SpecHash == InitHash /\ [][NextHash]_vars

\* every argument is evaluated in the end, the queue of receivers is run until
\* it is empty, and a value that kept a Hasher calls it
SpecHashLive ==
  /\ SpecHash
  /\ WF_vars(HSComplete) /\ WF_vars(HSReceive) /\ WF_vars(HSValueHashed)

\* ------------------------------------------------------------------------
\* Properties of the hash notification
\* ------------------------------------------------------------------------

HashRuns == hs_pc \in {"run", "crashed"}

\* the Hasher with this number was handed to Binding::hash
Passed(h) == HashRuns /\ h \in DOMAIN hs_for

\* the hash code of the binding the Hasher was handed in for
HashFor(h) == hs_bind[hs_for[h]].hashcode

\* receive was called on the Hasher once, with the hash code of its binding
ReceivedOnce(h) == HashFor(h) # NoHash /\ hs_recv[h] = <<HashFor(h)>>

\* receive was called on the Hasher at most once, and then with the hash code
NoSecondReceive(h) == hs_recv[h] = <<>> \/ ReceivedOnce(h)

\* the Hashers that sit in the list of a binding
QueuedOn(b) == {hs_bind[b].hasher[i] : i \in DOMAIN hs_bind[b].hasher}

\* no Hasher is queued on a binding whose hashcode is set
NoneLeftQueued ==
  HashRuns => \A b \in DOMAIN hs_bind :
                hs_bind[b].hashcode # NoHash => hs_bind[b].hasher = <<>>

\* C30: every Hasher passed to Binding::hash eventually has receive called
\* exactly once with the hash code of the binding, whether the hash was already
\* computed, is being computed or is computed during the call; and no Hasher is
\* left queued on a binding whose hashcode is set.
C30_HashNotification ==
  /\ [](\A h \in 1..MaxHashers : Passed(h) => NoSecondReceive(h))
  /\ \A h \in 1..MaxHashers : (Passed(h) ~> ReceivedOnce(h))
  /\ []NoneLeftQueued

\* no Hasher is called twice or with another code
AtMostOnce ==
  HashRuns => \A h \in DOMAIN hs_for : NoSecondReceive(h)

\* the first call for the binding: the one that starts the computation
Starts(h) == \A g \in 1..(h - 1) : hs_for[g] # hs_for[h]

\* a Hasher handed in when the hash code was already there is called in the call
\* itself, and a Hasher is left on a binding with a hash code only if its call
\* started the computation and the computation ended inside that call
LeftOnlyByStart ==
  hs_pc = "run" =>
    \A h \in DOMAIN hs_for :
      LET b == hs_for[h]
      IN (hs_bind[b].hashcode # NoHash /\ ~ReceivedOnce(h)) =>
           /\ Starts(h)
           /\ hs_recv[h] = <<>>
           /\ hs_bind[b].hasher = <<ClientHasher(h)>>

\* a binding without arguments and without a next was hashed for the first
\* time: its hash code is set, the Hasher sits in its list and was never called
C30_Witness ==
  /\ hs_pc = "run" /\ hs_order = "object"
  /\ Len(hs_for) = 1 /\ hs_for[1] = 1
  /\ hs_bind[1].nargs = 0 /\ hs_bind[1].next = 0
  /\ hs_bind[1].hashcode = HASH(<<>>)
  /\ hs_bind[1].hasher = <<ClientHasher(1)>>
  /\ hs_recv[1] = <<>>
====
